---- MODULE Spec2Model ----
(***************************************************************************)
(* A state-machine model of the rand crate's generation-and-sampling       *)
(* engine: weighted discrete choice, unbiased integer range sampling, the  *)
(* reseeding generator, the block buffer, the entropy chain, XorShiftRng   *)
(* and ChaCha seeding, fill and fill_bytes, shuffle and choose.  Each      *)
(* component has its own specification; the variables of the other         *)
(* components stay idle.                                                   *)
(***************************************************************************)
EXTENDS Integers, Sequences, FiniteSets, TLC

VARIABLES
    wc_orig,           \* the caller's weights, in order, before WeightedChoice::new
    wc_items,          \* items[k].weight as stored in the borrowed slice
    wc_state,          \* "fresh", "built", "panic_empty", "panic_overflow", "panic_zero"
    wc_total,          \* running_total, the upper end of weight_range
    wc_sample_weight,  \* the value last drawn from weight_range
    wc_result,         \* outcome of the last sample: [kind, idx]
    gr_signed,         \* gen_range: TRUE for a signed integer type, FALSE for unsigned
    gr_low,            \* gen_range: the argument low
    gr_high,           \* gen_range: the argument high
    us_low,            \* Uniform::sample_single: the parameter low
    us_high,           \* Uniform::sample_single: the parameter high
    gr_state,          \* "idle", "sampling", "returned", "panicked"
    gr_word,           \* the raw word last drawn from the generator
    gr_draws,          \* how many words the call has drawn
    gr_result,         \* the value returned
    rs,                \* ReseedingRng: [threshold, counter, seed, pos, reseeds]
    rs_last,           \* the last call on it: operation, size, state before, outcome
    rs_served,         \* size in bytes of the request served last
    bb,                \* block buffer: [core, results, index]
    bb_cmp,            \* the last byte fill: as one call, and split into pieces
    ec_hist,           \* EntropyRng: the calls made on it, in order: environment, attempts, result
    xs_seed,           \* XorShiftRng: the 16-byte seed handed to from_seed
    xs_lead,           \* the all-zero tuples the source of from_rng yields before the seed's words
    xs_a,              \* the generator built by from_seed: [state, x, y, z, w]
    xs_b,              \* the generator built by from_rng: [state, x, y, z, w]
    xs_tries,          \* tuples from_rng has drawn from its source
    xs_out_a,          \* the words next_u32 returned on xs_a, in order
    xs_out_b,          \* the words next_u32 returned on xs_b, in order
    cc,                \* ChaCha: [state, key, nonce, b, c, d] as init_chacha builds it
    fl_host,           \* byte order of the host: "little" or "big"
    fl_x,              \* the step generator's u64, as 8 bytes, least significant first
    fl_xs,             \* an XorShiftRng whose fill_bytes is called
    fl_calls,          \* calls made so far
    fl_last,           \* the last call: [op, size, len, n, before, mem, elems]
    sq_orig,           \* the slice handed to shuffle or choose
    sq_values,         \* the slice as it is now
    sq_i,              \* shuffle: the loop variable i
    sq_state,          \* "fresh", "shuffling", "shuffled", "chosen", "chosen_mut"
    sq_draws,          \* the gen_range calls made, in order: [high, j] for gen_range(0, high) = j
    sq_choice,         \* the result of choose: [kind, idx, value]
    gb_last,           \* gen_bool: the last call: [p, word, p_int, result], p in units of 1 / ProbDen
    ch_state,          \* char sampling: "fresh", "sampling", "returned"
    ch_log,            \* the 21-bit patterns char::from_u32 was handed in this call, in order
    ch_result,         \* the char returned, as its code point
    zg_symmetric,      \* the `symmetric` argument of the ziggurat call
    zg_state,          \* "looping" or "returned"
    zg_trace,          \* the passes of the loop made by the call, oldest first
    zg_result,         \* the value the call returned, or None
    it_kind,           \* "iter", "map" or "flat_map": the pseudo-iterator in hand
    it_len,            \* its len field: None, or the number of closure calls left
    it_takes,          \* the arguments of the take calls made, in order
    it_front,          \* frontiter of FlatMap: <<>> for None, or <<the items its sub-iterator has left>>
    it_subs,           \* the sub-iterators or values the closure has returned, in order
    it_log,            \* what the next calls returned, in order: [some |-> TRUE, item |-> x] or NoItem
    cw_first,          \* the ChaCha state as new or set_stream_param left it, before any refill
    cw_last,           \* the refill4 call made last: the state before it and the d rows of its four blocks
    cw_refills,        \* refill4 calls since cw_first
    cw_sets,           \* set_stream_param calls made
    xn_g,              \* an XorShiftRng, stepped after its construction
    xn_last,           \* the call made last on xn_g: its name, the generator before it, the word it returned
    xn_calls           \* calls made, the construction included

wcVars == <<wc_orig, wc_items, wc_state, wc_total, wc_sample_weight, wc_result>>

grVars == <<gr_signed, gr_low, gr_high, us_low, us_high, gr_state, gr_word, gr_draws, gr_result>>

rsVars == <<rs, rs_last, rs_served>>

bbVars == <<bb, bb_cmp>>

ecVars == <<ec_hist>>

xsVars == <<xs_seed, xs_lead, xs_a, xs_b, xs_tries, xs_out_a, xs_out_b>>

ccVars == <<cc>>

flVars == <<fl_host, fl_x, fl_xs, fl_calls, fl_last>>

sqVars == <<sq_orig, sq_values, sq_i, sq_state, sq_draws, sq_choice>>

gbVars == <<gb_last>>

chVars == <<ch_state, ch_log, ch_result>>

zgVars == <<zg_symmetric, zg_state, zg_trace, zg_result>>

itVars == <<it_kind, it_len, it_takes, it_front, it_subs, it_log>>

cwVars == <<cw_first, cw_last, cw_refills, cw_sets>>

xnVars == <<xn_g, xn_last, xn_calls>>

vars == <<wcVars, grVars, rsVars, bbVars, ecVars, xsVars, ccVars, flVars, sqVars, gbVars, chVars, zgVars, itVars, cwVars, xnVars>>

(***************************************************************************)
(* Bounds of the model.                                                    *)
(***************************************************************************)
\* longest item slice handed to WeightedChoice::new
MaxItems == 6
\* largest single weight of an item
MaxWeight == 2
\* the largest value of the weight counter (u32::MAX, scaled down)
U32Max == 7
\* bit width w of the integer type gen_range is called with
IntBits == 4
\* most words one gen_range call is followed through
MaxDraws == 2
\* largest reseeding threshold, in bytes
MaxThreshold == 10
\* longest destination slice of one fill_bytes / try_fill_bytes call
MaxFill == 9
\* most reseeds one generator is followed through
MaxReseeds == 2
\* words per block of the block generator (N)
BlockWords == 2
\* most blocks the core is asked for by next_u32 and fill_bytes calls
MaxBlocks == 2
\* longest destination slice filled through the block buffer
MaxLen == 17
\* longest piece when a fill is split into several calls
MaxChunk == 8

\* calls made on the entropy chain
MaxEcCalls == 3

\* all-zero tuples a source of from_rng may start with
MaxLead == 1

\* the retries a bounded from_rng would make
RetryLimit == 3

\* words drawn from a generator
MaxStream == 3

\* fill calls in a run
MaxFlCalls == 2

\* elements of a slice filled
MaxElems == 3

\* bytes of a destination of fill_bytes
MaxDest == 13

\* elements of a slice shuffled or chosen from
MaxSlice == 4

\* the probabilities handed to gen_bool are multiples of 1 / ProbDen
ProbDen == 8

\* passes of char sampling's loop followed
MaxCharDraws == 3

\* patterns tried on each side of the end of a range of code points
CharWindow == 1

\* layers of the ziggurat tables (256 in the code), scaled down
ZigLayers == 3

\* the values of the uniform fraction (SCALE = 2^53 in the code), scaled down
ZigScale == 4

\* loop passes of one ziggurat call the model follows
MaxZigPasses == 2

\* the largest argument of take
MaxTake == 2

\* take calls on one Iter
MaxTakes == 2

\* calls of next on one iterator
MaxNexts == 4

\* the longest sub-iterator the closure of flat_map returns
MaxSubLen == 2

\* refill4 calls on one ChaCha state
MaxRefills == 3

\* set_stream_param calls on one ChaCha state
MaxSets == 1

\* calls on one XorShiftRng, its construction included
MaxXsCalls == 5

None == -1

(***************************************************************************)
(* WeightedChoice (src/src/distributions/mod.rs)                           *)
(***************************************************************************)
\* all slices of weights of length 0..MaxItems
WeightSeqs == UNION {[1..n -> 0..MaxWeight] : n \in 0..MaxItems}

RECURSIVE SumTo(_, _)
\* the mathematical sum of the first k weights of s
SumTo(s, k) == IF k = 0 THEN 0 ELSE SumTo(s, k - 1) + s[k]

\* u32::checked_add with wrap-around instead of the check
WrappingAdd(a, b) == (a + b) % (U32Max + 1)

\* u32::checked_add: None on overflow
CheckedAdd(a, b) == IF a + b > U32Max THEN None ELSE a + b

RECURSIVE CumulateDroppingZeros(_, _, _)
\* the loop of new with the optimisation its comment mentions: items of weight 0
\* are dropped from the table
CumulateDroppingZeros(items, k, rt) ==
    IF k > Len(items) THEN [items |-> items, total |-> rt, overflow |-> FALSE]
    ELSE IF items[k] = 0
         THEN CumulateDroppingZeros(SubSeq(items, 1, k - 1) \o SubSeq(items, k + 1, Len(items)), k, rt)
         ELSE LET n == CheckedAdd(rt, items[k])
              IN IF n = None
                 THEN [items |-> items, total |-> rt, overflow |-> TRUE]
                 ELSE CumulateDroppingZeros([items EXCEPT ![k] = n], k + 1, n)

RECURSIVE CumulateFrom(_, _, _)
\* the `for item in items.iter_mut()` loop of new, from item k (1-based) on with
\* running_total rt: the slice as left behind, the total, and whether it overflowed
CumulateFrom(items, k, rt) ==
    IF k > Len(items) THEN [items |-> items, total |-> rt, overflow |-> FALSE]
    ELSE LET n == CheckedAdd(rt, items[k])
         IN IF n = None
            THEN [items |-> items, total |-> rt, overflow |-> TRUE]
            ELSE CumulateFrom([items EXCEPT ![k] = n], k + 1, n)

\* new without the total-weight assertion
NewOutcomeNoZeroCheck(items) ==
    IF Len(items) = 0 THEN [state |-> "panic_empty", items |-> items, total |-> 0]
    ELSE LET c == CumulateFrom(items, 1, 0)
         IN IF c.overflow
            THEN [state |-> "panic_overflow", items |-> c.items, total |-> c.total]
            ELSE [state |-> "built", items |-> c.items, total |-> c.total]

\* WeightedChoice::new: the two assertions and the cumulative loop
NewOutcome(items) ==
    IF Len(items) = 0 THEN [state |-> "panic_empty", items |-> items, total |-> 0]
    ELSE LET c == CumulateFrom(items, 1, 0)
         IN IF c.overflow
            THEN [state |-> "panic_overflow", items |-> c.items, total |-> c.total]
            ELSE IF c.total = 0
                 THEN [state |-> "panic_zero", items |-> c.items, total |-> c.total]
                 ELSE [state |-> "built", items |-> c.items, total |-> c.total]

\* self.items[i].weight for a 0-based index i
WeightAt(items, i) == items[i + 1]

RECURSIVE SearchRoundDown(_, _, _, _)
\* the search loop without `modifier += 1`: the midpoint step rounds down
SearchRoundDown(items, sample_weight, idx, modifier) ==
    IF modifier <= 1 THEN [kind |-> "ok", idx |-> idx]
    ELSE LET i == idx + modifier \div 2
         IN IF i >= Len(items) THEN [kind |-> "panic_index", idx |-> i]
            ELSE IF WeightAt(items, i) <= sample_weight
                 THEN SearchRoundDown(items, sample_weight, i, modifier \div 2)
                 ELSE SearchRoundDown(items, sample_weight, idx, modifier \div 2)

RECURSIVE Search(_, _, _, _)
\* the `while modifier > 1` loop of sample: the last index whose cumulative
\* weight is <= sample_weight, or an out-of-bounds index panic
Search(items, sample_weight, idx, modifier) ==
    IF modifier <= 1 THEN [kind |-> "ok", idx |-> idx]
    ELSE LET i == idx + modifier \div 2
         IN IF i >= Len(items) THEN [kind |-> "panic_index", idx |-> i]
            ELSE IF WeightAt(items, i) <= sample_weight
                 THEN Search(items, sample_weight, i, (modifier + 1) \div 2)
                 ELSE Search(items, sample_weight, idx, modifier \div 2)

\* WeightedChoice::sample once sample_weight is drawn: the index of the item returned
SampleOutcome(items, sample_weight) ==
    IF sample_weight < WeightAt(items, 0) THEN [kind |-> "ok", idx |-> 0]
    ELSE LET s == Search(items, sample_weight, 0, Len(items))
         IN IF s.kind # "ok" THEN s
            ELSE IF s.idx + 1 >= Len(items) THEN [kind |-> "panic_index", idx |-> s.idx + 1]
                 ELSE [kind |-> "ok", idx |-> s.idx + 1]

NoResult == [kind |-> "none", idx |-> None]

\* no WeightedChoice exists
WcIdle ==
    /\ wc_orig = <<>>
    /\ wc_items = <<>>
    /\ wc_state = "fresh"
    /\ wc_total = 0
    /\ wc_sample_weight = None
    /\ wc_result = NoResult

\* no gen_range call is under way
GrIdle ==
    /\ gr_signed = FALSE
    /\ gr_low = 0
    /\ gr_high = 0
    /\ us_low = 0
    /\ us_high = 0
    /\ gr_state = "idle"
    /\ gr_word = None
    /\ gr_draws = 0
    /\ gr_result = {}

\* the state of a ReseedingRng built with the given threshold
RsNew(threshold) ==
    [threshold |-> threshold, counter |-> 0, seed |-> 0, pos |-> 0, reseeds |-> 0]

\* no output
NoOut == [seed |-> None, from |-> None, len |-> None]

\* no call made yet on the state st
NoCall(st) ==
    [op |-> "none", n |-> 0, entropy_ok |-> TRUE, before |-> st,
     result |-> "none", out |-> NoOut]

\* no ReseedingRng is in use
RsIdle ==
    /\ rs = RsNew(1)
    /\ rs_last = NoCall(RsNew(1))
    /\ rs_served = 0

\* bytes of a u32
U32Bytes == 4

\* a block buffer right after construction: nothing generated, cursor at the end
BbNew == [core |-> 0, results |-> <<>>, index |-> BlockWords]

\* no fill made yet
NoFill == [n |-> 0, chunk |-> 0, before |-> BbNew, whole |-> <<>>, pieces |-> <<>>]

\* the block buffer is not in use
BbIdle ==
    /\ bb = BbNew
    /\ bb_cmp = NoFill

\* no call was made on an EntropyRng
EcIdle == ec_hist = <<>>

\* bits of a u32
WordBits == 32

\* bits of a byte
ByteBits == 8

\* the u32 0, as its bits from the least significant
Zero32 == [i \in 1..WordBits |-> 0]

\* a generator, by its state of construction and the four words
XsGen(state, x, y, z, w) == [state |-> state, x |-> x, y |-> y, z |-> z, w |-> w]

\* no XorShiftRng exists
XsNone == XsGen("none", Zero32, Zero32, Zero32, Zero32)

\* no XorShiftRng is in use
XsIdle ==
    /\ xs_seed = <<>>
    /\ xs_lead = 0
    /\ xs_a = XsNone
    /\ xs_b = XsNone
    /\ xs_tries = 0
    /\ xs_out_a = <<>>
    /\ xs_out_b = <<>>

\* no ChaCha state exists
CcNone == [state |-> "none", key |-> <<>>, nonce |-> <<>>, b |-> <<>>, c |-> <<>>, d |-> <<>>]

\* no ChaCha is in use
CcIdle == cc = CcNone

\* no fill call made
NoFlCall ==
    [op |-> "none", size |-> 0, len |-> 0, n |-> 0, before |-> XsNone,
     mem |-> <<>>, elems |-> <<>>]

\* no fill is under way
FlIdle ==
    /\ fl_host = "little"
    /\ fl_x = <<>>
    /\ fl_xs = XsNone
    /\ fl_calls = 0
    /\ fl_last = NoFlCall

\* no result of choose
NoChoice == [kind |-> "none", idx |-> None, value |-> None]

\* no slice is being shuffled or chosen from
SqIdle ==
    /\ sq_orig = <<>>
    /\ sq_values = <<>>
    /\ sq_i = 0
    /\ sq_state = "fresh"
    /\ sq_draws = <<>>
    /\ sq_choice = NoChoice

\* no gen_bool call made
NoGenBool == [p |-> 0, word |-> None, p_int |-> None, result |-> "none"]

\* gen_bool is not in use
GbIdle == gb_last = NoGenBool

\* no char is being sampled
ChIdle ==
    /\ ch_state = "fresh"
    /\ ch_log = <<>>
    /\ ch_result = None

\* no ziggurat call is under way
ZgIdle ==
    /\ zg_symmetric = FALSE
    /\ zg_state = "looping"
    /\ zg_trace = <<>>
    /\ zg_result = None

\* next returned None
NoItem == [some |-> FALSE, item |-> None]

\* no pseudo-iterator was made
ItIdle ==
    /\ it_kind = "iter"
    /\ it_len = None
    /\ it_takes = <<>>
    /\ it_front = <<>>
    /\ it_subs = <<>>
    /\ it_log = <<>>

\* no refill4 call made
NoRefill == [before |-> CcNone, blocks |-> <<>>]

\* no ChaCha state is being refilled from
CwIdle ==
    /\ cw_first = CcNone
    /\ cw_last = NoRefill
    /\ cw_refills = 0
    /\ cw_sets = 0

\* no call made on the generator
NoXsCall == [op |-> "none", before |-> XsNone, out |-> Zero32]

\* no XorShiftRng is being stepped
XnIdle ==
    /\ xn_g = XsNone
    /\ xn_last = NoXsCall
    /\ xn_calls = 0

WcInit ==
    /\ XnIdle
    /\ CwIdle
    /\ ItIdle
    /\ ZgIdle
    /\ ChIdle
    /\ GbIdle
    /\ SqIdle
    /\ FlIdle
    /\ CcIdle
    /\ XsIdle
    /\ EcIdle
    /\ GrIdle
    /\ RsIdle
    /\ BbIdle
    /\ wc_orig \in WeightSeqs
    /\ wc_items = wc_orig
    /\ wc_state = "fresh"
    /\ wc_total = 0
    /\ wc_sample_weight = None
    /\ wc_result = NoResult

\* WeightedChoice::new(&mut items)
WeightedChoice_new ==
    /\ wc_state = "fresh"
    /\ LET out == NewOutcome(wc_items)
       IN /\ wc_state' = out.state
          /\ wc_items' = out.items
          /\ wc_total' = out.total
    /\ UNCHANGED <<wc_orig, wc_sample_weight, wc_result, grVars, rsVars, bbVars, ecVars, xsVars, ccVars, flVars, sqVars, gbVars, chVars, zgVars, itVars, cwVars, xnVars>>

\* WeightedChoice::sample(rng): weight_range.sample(rng) yields a value of [0, total)
WeightedChoice_sample ==
    /\ wc_state = "built"
    /\ \E sample_weight \in 0..(wc_total - 1) :
          /\ wc_sample_weight' = sample_weight
          /\ wc_result' = SampleOutcome(wc_items, sample_weight)
    /\ UNCHANGED <<wc_orig, wc_items, wc_state, wc_total, grVars, rsVars, bbVars, ecVars, xsVars, ccVars, flVars, sqVars, gbVars, chVars, zgVars, itVars, cwVars, xnVars>>

WcNext == WeightedChoice_new \/ WeightedChoice_sample

SpecWC == WcInit /\ [][WcNext]_vars

(***************************************************************************)
(* Claims about WeightedChoice, checked under SpecWC.                      *)
(***************************************************************************)
\* the number of items of the slice
WcLen == Len(wc_orig)

\* the sample call has returned or panicked
WcSampled == wc_state = "built" /\ wc_result.kind # "none"

\* C1: for every accepted weight sequence and every drawn value v in [0, total),
\* sample returns the item at the smallest index whose cumulative weight (the sum
\* of the original weights up to and including it) strictly exceeds v; an item of
\* weight 0 is never returned; this holds for every table length, odd ones included.
C1_SampleSmallestExceeding ==
    WcSampled =>
        /\ wc_result.kind = "ok"
        /\ wc_result.idx \in 0..(WcLen - 1)
        /\ SumTo(wc_orig, wc_result.idx + 1) > wc_sample_weight
        /\ \A j \in 0..(wc_result.idx - 1) : SumTo(wc_orig, j + 1) <= wc_sample_weight
        /\ wc_orig[wc_result.idx + 1] > 0

\* C1 witness: an odd-length table with a zero-weight item in front of the last
\* item, and the draw selects the last item through the binary search
C1_Witness ==
    /\ WcSampled
    /\ WcLen = 5
    /\ wc_orig[4] = 0
    /\ wc_result = [kind |-> "ok", idx |-> 4]

\* C5: new panics when the item sequence is empty and when every weight is zero; a
\* distribution that new returns never has a total weight of 0.
C5_NewRejectsEmptyAndZero ==
    wc_state # "fresh" =>
        /\ (WcLen = 0 => wc_state = "panic_empty")
        /\ ((WcLen > 0 /\ \A k \in 1..WcLen : wc_orig[k] = 0) => wc_state = "panic_zero")
        /\ (wc_state = "built" => wc_total > 0 /\ SumTo(wc_orig, WcLen) > 0)

\* C5 witness: new was called on several items that all weigh 0, and panicked
C5_Witness ==
    /\ wc_state = "panic_zero"
    /\ WcLen = 3

\* C6: new fails on overflow exactly when the sum of the weights exceeds u32::MAX:
\* every non-empty sequence with a total in 1..u32::MAX is accepted (a total of
\* exactly u32::MAX included), and the stored running sums are the true partial
\* sums, never wrapped.
C6_OverflowExactly ==
    wc_state # "fresh" =>
        /\ (wc_state = "panic_overflow" <=> SumTo(wc_orig, WcLen) > U32Max)
        /\ (SumTo(wc_orig, WcLen) \in 1..U32Max => wc_state = "built")
        /\ (wc_state = "built" =>
               /\ wc_total = SumTo(wc_orig, WcLen)
               /\ \A k \in 1..WcLen : wc_items[k] = SumTo(wc_orig, k))
        /\ (wc_state = "panic_overflow" =>
               \E k \in 1..WcLen :
                   /\ SumTo(wc_orig, k) > U32Max
                   /\ wc_total = SumTo(wc_orig, k - 1)
                   /\ \A j \in 1..(k - 1) : wc_items[j] = SumTo(wc_orig, j))

\* C6 witness: new accepted weights whose total is exactly u32::MAX
C6_Witness ==
    /\ wc_state = "built"
    /\ wc_total = U32Max
    /\ WcLen >= 4

RECURSIVE SearchStates(_, _, _, _)
\* the `while modifier > 1` loop of sample, as the sequence of its loop heads: idx
\* and modifier there, and the index i the iteration reads (None once the loop is left)
SearchStates(items, sample_weight, idx, modifier) ==
    IF modifier <= 1 THEN <<[idx |-> idx, modifier |-> modifier, i |-> None]>>
    ELSE LET i == idx + modifier \div 2
         IN <<[idx |-> idx, modifier |-> modifier, i |-> i]>> \o
            (IF i >= Len(items) THEN <<>>
             ELSE IF WeightAt(items, i) <= sample_weight
                  THEN SearchStates(items, sample_weight, i, (modifier + 1) \div 2)
                  ELSE SearchStates(items, sample_weight, idx, modifier \div 2))

\* the indices the loop heads of st read
Probes(st) == {st[k].i : k \in {j \in 1..Len(st) : st[j].i # None}}

\* sample without `if sample_weight < self.items[0].weight`: the search always runs
SampleReadsNoShortCircuit(items, sample_weight) ==
    LET st == SearchStates(items, sample_weight, 0, Len(items))
    IN {0} \cup Probes(st) \cup
       (IF st[Len(st)].i = None THEN {st[Len(st)].idx + 1} ELSE {})

\* WeightedChoice::sample once sample_weight is drawn: the indices of self.items it
\* reads (items[0], every items[i] of the loop, and the final items[idx + 1])
SampleReads(items, sample_weight) ==
    IF sample_weight < WeightAt(items, 0) THEN {0}
    ELSE LET st == SearchStates(items, sample_weight, 0, Len(items))
         IN {0} \cup Probes(st) \cup
            (IF st[Len(st)].i = None THEN {st[Len(st)].idx + 1} ELSE {})

\* the loop heads of the sample call made last
WcSearch == SearchStates(wc_items, wc_sample_weight, 0, Len(wc_items))

\* the sample call made last went past the short circuit, into the search
WcSearched == WcSampled /\ wc_sample_weight >= WeightAt(wc_items, 0)

\* C23: every index sample reads is inside the table, for every table length >= 1
\* and every drawn value in [0, total): idx + modifier <= len at every loop head,
\* the index read idx + modifier/2 is < len, the element the search ends on (the
\* last one with cumulative weight <= the drawn value) is never the last element,
\* so the final idx + 1 is < len.
C23_SampleReadsInsideTable ==
    WcSampled =>
        /\ \A r \in SampleReads(wc_items, wc_sample_weight) : r \in 0..(WcLen - 1)
        /\ wc_result.kind = "ok"
        /\ WcSearched =>
              /\ \A k \in 1..Len(WcSearch) :
                    /\ WcSearch[k].idx + WcSearch[k].modifier <= WcLen
                    /\ WcSearch[k].modifier > 1 =>
                          /\ WcSearch[k].i = WcSearch[k].idx + WcSearch[k].modifier \div 2
                          /\ WcSearch[k].i < WcLen
              /\ LET last == WcSearch[Len(WcSearch)]
                 IN /\ last.modifier = 1
                    /\ WeightAt(wc_items, last.idx) <= wc_sample_weight
                    /\ last.idx # WcLen - 1
                    /\ last.idx + 1 < WcLen
                    /\ wc_result.idx = last.idx + 1

\* C23 witness: a search over an odd-length table that read the last element and
\* ended on the element before it
C23_Witness ==
    /\ WcSearched
    /\ WcLen = 5
    /\ (WcLen - 1) \in Probes(WcSearch)
    /\ WcSearch[Len(WcSearch)].idx = WcLen - 2
    /\ Len(WcSearch) >= 3

\* C24: after new succeeds the stored weight of item i is the sum of the original
\* weights of items 0..=i, so the stored weights are non-decreasing and the last
\* one is the total, which is > 0; the items keep their original positions; and
\* no later sample call changes the table.
C24_CumulativeTableKept ==
    [][/\ wc_state' = "built" =>
             /\ Len(wc_items') = WcLen
             /\ \A k \in 1..WcLen : wc_items'[k] = SumTo(wc_orig, k)
             /\ \A k \in 1..WcLen :
                   wc_items'[k] - (IF k = 1 THEN 0 ELSE wc_items'[k - 1]) = wc_orig[k]
             /\ \A k \in 1..(WcLen - 1) : wc_items'[k] <= wc_items'[k + 1]
             /\ wc_items'[WcLen] = wc_total'
             /\ wc_total' > 0
       /\ wc_state = "built" =>
             /\ wc_items' = wc_items
             /\ wc_total' = wc_total
             /\ wc_state' = "built"
             /\ wc_orig' = wc_orig]_vars

\* C24 witness: a table built from weights with a zero between two non-zero ones,
\* cumulative as stored, and sampled from
C24_Witness ==
    /\ WcSampled
    /\ WcLen = 4
    /\ wc_orig[2] > 0
    /\ wc_orig[3] = 0
    /\ wc_orig[4] > 0
    /\ wc_items[2] = wc_items[3]
    /\ wc_items[4] = wc_total
    /\ wc_result = [kind |-> "ok", idx |-> 3]

(***************************************************************************)
(* Integer range sampling: Rng::gen_range (src/src/lib.rs) forwards to     *)
(* Uniform::sample_single, modelled after section 4.5 of the              *)
(* specification: map to the unsigned domain of the same width, multiply   *)
(* a raw word by the range size into a double-width product, re-draw when  *)
(* the low half is below the rejection threshold, add low to the high half.*)
(***************************************************************************)
RECURSIVE Pow2(_)
Pow2(n) == IF n = 0 THEN 1 ELSE 2 * Pow2(n - 1)

\* the number of values of the w-bit domain, 2^w
WordSpace == Pow2(IntBits)

\* the raw words the generator can yield
Words == 0..(WordSpace - 1)

\* the smallest value of the integer type
TypeMin(signed) == IF signed THEN 0 - Pow2(IntBits - 1) ELSE 0

\* the largest value of the integer type
TypeMax(signed) == IF signed THEN Pow2(IntBits - 1) - 1 ELSE WordSpace - 1

\* the values of the integer type
TypeValues(signed) == TypeMin(signed)..TypeMax(signed)

\* a.wrapping_add(b) in the result type, b an unsigned word
WrappingAddT(signed, a, b) == ((a + b - TypeMin(signed)) % WordSpace) + TypeMin(signed)

\* the range size high - low, computed in the unsigned domain
RangeSize(low, high) == (high - low) % WordSpace

\* the precondition low < high; the call panics without it
LowBelowHigh(low, high) == low < high

\* the high half of the widening multiplication: the candidate result
WMulHi(v, range) == (v * range) \div WordSpace

\* the low half of the widening multiplication: the fractional remainder
WMulLo(v, range) == (v * range) % WordSpace

\* a threshold that rejects nothing
NoRejection(range) == 0

\* the rejection threshold, derived from the range and the domain size: 2^w mod range
RejectionThreshold(range) == (WordSpace - range) % range

\* the word v is rejected and another one drawn
Rejects(v, range) == WMulLo(v, range) < RejectionThreshold(range)

\* sample_single on one raw word v: re-draw, or the value returned
SampleSingleStep(signed, low, high, v) ==
    LET range == RangeSize(low, high)
    IN IF range = 0
       THEN [accept |-> TRUE, value |-> WrappingAddT(signed, 0, v)]
       ELSE IF Rejects(v, range)
            THEN [accept |-> FALSE, value |-> 0]
            ELSE [accept |-> TRUE, value |-> WrappingAddT(signed, low, WMulHi(v, range))]

\* Uniform::sample_single(low, high, rng) up to its first draw: the precondition
SampleSingleEnter(signed, low, high) ==
    [low |-> low, high |-> high,
     state |-> IF LowBelowHigh(low, high) THEN "sampling" ELSE "panicked"]

\* gen_range with the two bounds passed on in the wrong order
gen_range_swapped(signed, low, high) == SampleSingleEnter(signed, high, low)

\* Rng::gen_range(low, high): passes its arguments on to Uniform::sample_single
gen_range(signed, low, high) == SampleSingleEnter(signed, low, high)

GrInit ==
    /\ XnIdle
    /\ CwIdle
    /\ ItIdle
    /\ ZgIdle
    /\ ChIdle
    /\ GbIdle
    /\ SqIdle
    /\ FlIdle
    /\ CcIdle
    /\ XsIdle
    /\ EcIdle
    /\ WcIdle
    /\ RsIdle
    /\ BbIdle
    /\ GrIdle

\* rng.gen_range(low, high): the call, up to the first draw
GenRange_call ==
    /\ gr_state = "idle"
    /\ \E signed \in BOOLEAN :
          \E low \in TypeValues(signed), high \in TypeValues(signed) :
              /\ gr_signed' = signed
              /\ gr_low' = low
              /\ gr_high' = high
              /\ LET call == gen_range(signed, low, high)
                 IN /\ us_low' = call.low
                    /\ us_high' = call.high
                    /\ gr_state' = call.state
    /\ UNCHANGED <<gr_word, gr_draws, gr_result, wcVars, rsVars, bbVars, ecVars, xsVars, ccVars, flVars, sqVars, gbVars, chVars, zgVars, itVars, cwVars, xnVars>>

\* one pass of the sampling loop: draw a raw word, accept it or go round again
GenRange_draw ==
    /\ gr_state = "sampling"
    /\ gr_draws < MaxDraws
    /\ \E v \in Words :
          LET step == SampleSingleStep(gr_signed, us_low, us_high, v)
          IN /\ gr_word' = v
             /\ gr_draws' = gr_draws + 1
             /\ gr_state' = IF step.accept THEN "returned" ELSE "sampling"
             /\ gr_result' = IF step.accept THEN {step.value} ELSE {}
    /\ UNCHANGED <<gr_signed, gr_low, gr_high, us_low, us_high, wcVars, rsVars, bbVars, ecVars, xsVars, ccVars, flVars, sqVars, gbVars, chVars, zgVars, itVars, cwVars, xnVars>>

GrNext == GenRange_call \/ GenRange_draw

SpecGR == GrInit /\ [][GrNext]_vars

(***************************************************************************)
(* Claims about gen_range, checked under SpecGR.                           *)
(***************************************************************************)
\* the raw words that are accepted and mapped to the output value x
AcceptedFor(signed, low, high, x) ==
    {v \in Words : LET step == SampleSingleStep(signed, low, high, v)
                   IN step.accept /\ step.value = x}

\* C2: integer range sampling over [low, high) is exactly unbiased: for the w-bit
\* domain and every range size r with 1 <= r < 2^w, among all 2^w raw words each of
\* the r output values is the image of the same (non-zero) number of accepted words,
\* no accepted word maps outside the range, and a rejected word causes a re-draw
\* rather than an output.
C2_RangeUnbiased ==
    /\ (gr_state = "sampling" /\ gr_draws = 0) =>
           LET r == RangeSize(gr_low, gr_high)
               n == Cardinality(AcceptedFor(gr_signed, gr_low, gr_high, gr_low))
           IN /\ r \in 1..(WordSpace - 1)
              /\ r = gr_high - gr_low
              /\ n > 0
              /\ \A x \in TypeValues(gr_signed) :
                    Cardinality(AcceptedFor(gr_signed, gr_low, gr_high, x))
                        = IF gr_low <= x /\ x < gr_high THEN n ELSE 0
    /\ (gr_state \in {"sampling", "returned"} /\ gr_draws > 0) =>
           IF Rejects(gr_word, RangeSize(gr_low, gr_high))
           THEN gr_state = "sampling" /\ gr_result = {}
           ELSE gr_state = "returned" /\ gr_result # {}
    /\ gr_state = "returned" => gr_draws > 0

\* C2 witness: a range size that does not divide 2^w; the first word was rejected
\* and the second accepted
C2_Witness ==
    /\ gr_state = "returned"
    /\ gr_draws = 2
    /\ RangeSize(gr_low, gr_high) = 5

\* C3: for every low < high and every generator output sequence, the value that
\* gen_range returns is in [low, high); a range holding one value returns low.
C3_ResultInRange ==
    gr_state = "returned" =>
        /\ Cardinality(gr_result) = 1
        /\ \A x \in gr_result :
              /\ gr_low <= x
              /\ x < gr_high
              /\ (gr_high = gr_low + 1 => x = gr_low)

\* C3 witness: a signed range spanning almost the whole type returns its largest
\* value after a rejected first draw
C3_Witness ==
    /\ gr_state = "returned"
    /\ gr_signed
    /\ gr_low = TypeMin(TRUE)
    /\ gr_high = TypeMax(TRUE)
    /\ gr_draws = 2
    /\ gr_result = {TypeMax(TRUE) - 1}

\* C4: gen_range panics whenever low >= high (low == high included), for signed and
\* unsigned types, and returns no value in that case.
C4_PanicsOnEmptyRange ==
    (gr_state # "idle" /\ gr_low >= gr_high) =>
        /\ gr_state = "panicked"
        /\ gr_result = {}
        /\ gr_draws = 0

\* C4 witness: a signed call with low == high has panicked
C4_Witness ==
    /\ gr_state = "panicked"
    /\ gr_signed
    /\ gr_low = gr_high
    /\ gr_low < 0

(***************************************************************************)
(* ReseedingRng: src/src/deprecated.rs wraps rngs::adapter::ReseedingRng   *)
(* and forwards every call to it.  The adapter is modelled after section   *)
(* 4.4 of the specification: the call that would push the byte counter to  *)
(* or above the threshold first reseeds (fresh seed from the entropy       *)
(* source, inner state replaced, counter reset to 0) and is then served    *)
(* from the new state; a failed entropy acquisition is propagated and      *)
(* leaves the state as it was.  The inner generator is (seed, pos): the    *)
(* seed it was last built from (0 the initial one, k the k-th delivered by *)
(* the entropy source) and the bytes it has produced since.                *)
(***************************************************************************)
\* bytes of a u64
U64Bytes == 8

\* the adapter's reseed: replace the inner state atomically, or fail and change nothing
Adapter_reseed(st, entropy_ok) ==
    IF entropy_ok
    THEN [st |-> [st EXCEPT !.seed = st.reseeds + 1, !.pos = 0, !.counter = 0,
                            !.reseeds = st.reseeds + 1],
          result |-> "ok", out |-> NoOut]
    ELSE [st |-> st, result |-> "err", out |-> NoOut]

\* serve n bytes from the inner generator, counting them
Adapter_generate(st, n) ==
    [st |-> [st EXCEPT !.counter = st.counter + n, !.pos = st.pos + n],
     result |-> "ok", out |-> [seed |-> st.seed, from |-> st.pos, len |-> n]]

\* one request of n bytes: the threshold is checked once, before serving
Adapter_serve(st, n, entropy_ok) ==
    IF st.counter + n >= st.threshold
    THEN LET r == Adapter_reseed(st, entropy_ok)
         IN IF r.result = "ok" THEN Adapter_generate(r.st, n) ELSE r
    ELSE Adapter_generate(st, n)

\* an infallible entry point turns a propagated failure into a panic
Unwrap(r) == IF r.result = "err" THEN [r EXCEPT !.result = "panic"] ELSE r

\* the adapter's RngCore implementation
Adapter_next_u32(st, entropy_ok) == Unwrap(Adapter_serve(st, U32Bytes, entropy_ok))

Adapter_next_u64(st, entropy_ok) == Unwrap(Adapter_serve(st, U64Bytes, entropy_ok))

Adapter_fill_bytes(st, n, entropy_ok) == Unwrap(Adapter_serve(st, n, entropy_ok))

Adapter_try_fill_bytes(st, n, entropy_ok) == Adapter_serve(st, n, entropy_ok)

\* next_u32 forwarding to the adapter's next_u64
ReseedingRng_next_u32_as_u64(st, entropy_ok) == Adapter_next_u64(st, entropy_ok)

\* ReseedingRng::next_u32: self.0.next_u32()
ReseedingRng_next_u32(st, entropy_ok) == Adapter_next_u32(st, entropy_ok)

\* next_u64 built from two next_u32 calls, each with its own threshold check
ReseedingRng_next_u64_via_u32(st, entropy_ok) ==
    LET a == Adapter_next_u32(st, entropy_ok)
    IN IF a.result # "ok" THEN a
       ELSE LET b == Adapter_next_u32(a.st, entropy_ok)
            IN IF b.result # "ok" THEN b
               ELSE [b EXCEPT !.out = [a.out EXCEPT !.len = U64Bytes]]

\* ReseedingRng::next_u64: self.0.next_u64()
ReseedingRng_next_u64(st, entropy_ok) == Adapter_next_u64(st, entropy_ok)

\* ReseedingRng::fill_bytes: self.0.fill_bytes(dest)
ReseedingRng_fill_bytes(st, n, entropy_ok) == Adapter_fill_bytes(st, n, entropy_ok)

\* try_fill_bytes going through the infallible fill_bytes and returning Ok(())
ReseedingRng_try_fill_bytes_via_fill(st, n, entropy_ok) ==
    Adapter_fill_bytes(st, n, entropy_ok)

\* ReseedingRng::try_fill_bytes: self.0.try_fill_bytes(dest)
ReseedingRng_try_fill_bytes(st, n, entropy_ok) == Adapter_try_fill_bytes(st, n, entropy_ok)

\* ReseedingRng::reseed: self.0.reseed()
ReseedingRng_reseed(st, entropy_ok) == Adapter_reseed(st, entropy_ok)

\* ReseedingRng::new(rng, threshold, reseeder)
RsInit ==
    /\ XnIdle
    /\ CwIdle
    /\ ItIdle
    /\ ZgIdle
    /\ ChIdle
    /\ GbIdle
    /\ SqIdle
    /\ FlIdle
    /\ CcIdle
    /\ XsIdle
    /\ EcIdle
    /\ WcIdle
    /\ GrIdle
    /\ BbIdle
    /\ \E threshold \in 1..MaxThreshold :
          /\ rs = RsNew(threshold)
          /\ rs_last = NoCall(RsNew(threshold))
    /\ rs_served = 0

\* the caller sees the outcome r of the call op for n bytes
RsReturn(op, n, entropy_ok, r) ==
    /\ rs' = r.st
    /\ rs_last' = [op |-> op, n |-> n, entropy_ok |-> entropy_ok, before |-> rs,
                   result |-> r.result, out |-> r.out]
    /\ rs_served' = IF r.result = "ok" /\ op # "reseed" THEN n ELSE rs_served
    /\ UNCHANGED <<wcVars, grVars, bbVars, ecVars, xsVars, ccVars, flVars, sqVars, gbVars, chVars, zgVars, itVars, cwVars, xnVars>>

Rs_next_u32 ==
    /\ rs.reseeds < MaxReseeds
    /\ \E entropy_ok \in BOOLEAN :
          RsReturn("next_u32", U32Bytes, entropy_ok, ReseedingRng_next_u32(rs, entropy_ok))

Rs_next_u64 ==
    /\ rs.reseeds < MaxReseeds
    /\ \E entropy_ok \in BOOLEAN :
          RsReturn("next_u64", U64Bytes, entropy_ok, ReseedingRng_next_u64(rs, entropy_ok))

Rs_fill_bytes ==
    /\ rs.reseeds < MaxReseeds
    /\ \E entropy_ok \in BOOLEAN, n \in 0..MaxFill :
          RsReturn("fill_bytes", n, entropy_ok, ReseedingRng_fill_bytes(rs, n, entropy_ok))

Rs_try_fill_bytes ==
    /\ rs.reseeds < MaxReseeds
    /\ \E entropy_ok \in BOOLEAN, n \in 0..MaxFill :
          RsReturn("try_fill_bytes", n, entropy_ok,
                   ReseedingRng_try_fill_bytes(rs, n, entropy_ok))

Rs_reseed ==
    /\ rs.reseeds < MaxReseeds
    /\ \E entropy_ok \in BOOLEAN :
          RsReturn("reseed", 0, entropy_ok, ReseedingRng_reseed(rs, entropy_ok))

RsNext == Rs_next_u32 \/ Rs_next_u64 \/ Rs_fill_bytes \/ Rs_try_fill_bytes \/ Rs_reseed

SpecRS == RsInit /\ [][RsNext]_vars

(***************************************************************************)
(* Claims about ReseedingRng, checked under SpecRS.                        *)
(***************************************************************************)
\* a call has returned to the caller
RsCalled == rs_last.op # "none"

\* the last call asked for output (it was not the explicit reseed)
RsGenerating == rs_last.op \in {"next_u32", "next_u64", "fill_bytes", "try_fill_bytes"}

\* the last call found the reseed due: it would push the counter to or above the threshold
RsDue == rs_last.before.counter + rs_last.n >= rs_last.before.threshold

\* C7 as stated: after any sequence of next_u32 / next_u64 / fill_bytes calls, of any
\* request sizes, the byte counter is below the threshold T whenever control is back
\* with the caller.
C7_CounterBelowThreshold == rs.counter < rs.threshold

\* C7, amended: whenever control is back with the caller the byte counter is below
\* the threshold T, unless the request served last was itself of T bytes or more: then
\* the counter equals that request's size.
C7_CounterBelowThresholdOrRequest ==
    \/ rs.counter < rs.threshold
    \/ (rs_served >= rs.threshold /\ rs.counter = rs_served)

\* C7 witness: a fill_bytes request larger than the threshold was served after a
\* reseed, and the counter stands at its size
C7_Witness ==
    /\ rs_last.op = "fill_bytes"
    /\ rs_last.result = "ok"
    /\ rs_last.before.counter > 0
    /\ rs_last.n > rs.threshold
    /\ rs.counter = rs_last.n

\* C8: a call performs at most one reseed.  The threshold is checked once, at the
\* start of serving the call: when the call would push the counter to or above the
\* threshold the reseed (inner state replaced, counter reset to 0) happens before any
\* byte is served, so the whole request comes from the new state, and a request
\* spanning several thresholds still reseeds once; otherwise no reseed happens and
\* the request is served from the state as it was.
C8_OneReseedPerCall ==
    RsCalled =>
        LET b == rs_last.before
        IN /\ rs.reseeds - b.reseeds \in {0, 1}
           /\ rs_last.result # "ok" => rs.reseeds = b.reseeds
           /\ (RsGenerating /\ rs_last.result = "ok") =>
                 IF RsDue
                 THEN /\ rs.reseeds = b.reseeds + 1
                      /\ rs.seed # b.seed
                      /\ rs_last.out = [seed |-> rs.seed, from |-> 0, len |-> rs_last.n]
                      /\ rs.counter = rs_last.n
                      /\ rs.pos = rs_last.n
                 ELSE /\ rs.reseeds = b.reseeds
                      /\ rs.seed = b.seed
                      /\ rs_last.out = [seed |-> b.seed, from |-> b.pos, len |-> rs_last.n]
                      /\ rs.counter = b.counter + rs_last.n
                      /\ rs.pos = b.pos + rs_last.n

\* C8 witness: a request spanning at least two thresholds was served with one reseed
C8_Witness ==
    /\ RsGenerating
    /\ rs_last.result = "ok"
    /\ rs_last.before.counter > 0
    /\ rs_last.n >= 2 * rs.threshold
    /\ rs.threshold > 1
    /\ rs.reseeds = rs_last.before.reseeds + 1

\* C9: when a reseed is due and the entropy acquisition fails, the call surfaces the
\* failure (an error from the fallible entry points, a panic from the infallible
\* ones), returns no output of the stale inner state, and leaves the generator exactly
\* as it was: no partially reseeded state.
C9_ReseedFailureSurfaced ==
    (RsCalled /\ ~rs_last.entropy_ok /\ (rs_last.op = "reseed" \/ RsDue)) =>
        /\ rs_last.result =
              IF rs_last.op \in {"try_fill_bytes", "reseed"} THEN "err" ELSE "panic"
        /\ rs_last.out = NoOut
        /\ rs = rs_last.before

\* C9 witness: try_fill_bytes found the reseed due on a generator that had already
\* served output, the entropy source failed, and the call returned the error
C9_Witness ==
    /\ rs_last.op = "try_fill_bytes"
    /\ ~rs_last.entropy_ok
    /\ RsDue
    /\ rs_last.result = "err"
    /\ rs.counter > 0
    /\ rs.reseeds = 1

(***************************************************************************)
(* BlockBuffer, modelled after sections 3 and 4.1 of the specification:    *)
(* {core algorithm state, result array of N words, cursor index}, with     *)
(* 0 <= index <= N; a request at index = N regenerates the block and       *)
(* resets the cursor; words are written least-significant byte first.      *)
(* The core is a counter of the blocks generated; the i-th word it ever    *)
(* produces is CoreWord(i), whose four bytes differ from every other       *)
(* word's.                                                                 *)
(***************************************************************************)
\* the i-th word of the core's output stream (i from 0): 0x04030201-like patterns
CoreWord(i) == 16909060 + i * 67372036

RECURSIVE GenerateWords(_, _)
\* the first j words of the block the core generates as its b-th (b from 0)
GenerateWords(b, j) ==
    IF j = 0 THEN <<>>
    ELSE Append(GenerateWords(b, j - 1), CoreWord(b * BlockWords + (j - 1)))

\* the block the core generates as its b-th
Generate(b) == GenerateWords(b, BlockWords)

\* u32::to_le_bytes: least significant byte first
ToLeBytes(w) ==
    <<w % 256, (w \div 256) % 256, (w \div 65536) % 256, (w \div 16777216) % 256>>

\* the buffer with a fresh block when the cursor is at the end
Refilled(st) ==
    IF st.index >= BlockWords
    THEN [core |-> st.core + 1, results |-> Generate(st.core), index |-> 0]
    ELSE st

\* the smaller of two numbers
Min(a, b) == IF a < b THEN a ELSE b

RECURSIVE FillLoop(_, _, _)
\* the loop of fill_bytes on a destination of len bytes, out written so far:
\* buffered words first, fresh blocks for the remainder, a prefix of the last word
\* when len is no multiple of the word size; the cursor counts words, so a word
\* read in part is consumed
FillLoop(st, len, out) ==
    IF Len(out) >= len THEN [st |-> st, out |-> out]
    ELSE IF st.index >= BlockWords THEN FillLoop(Refilled(st), len, out)
    ELSE FillLoop([st EXCEPT !.index = st.index + 1], len,
                  out \o SubSeq(ToLeBytes(st.results[st.index + 1]), 1,
                                Min(len - Len(out), U32Bytes)))

\* fill_bytes that drops the unused words of the block the destination ends in
FillDiscardingBlock(st, n) ==
    LET r == FillLoop(st, n, <<>>)
    IN [st |-> [r.st EXCEPT !.index = BlockWords], out |-> r.out]

\* fill_bytes(dest) with n = dest.len(): the state afterwards and the bytes written
FillBytes(st, n) == FillLoop(st, n, <<>>)

RECURSIVE PiecesLoop(_, _, _, _)
\* successive fill_bytes calls of chunk bytes each (the last one shorter) until n
\* bytes are written, out written so far
PiecesLoop(st, n, chunk, out) ==
    IF Len(out) >= n THEN [st |-> st, out |-> out]
    ELSE LET r == FillBytes(st, Min(n - Len(out), chunk))
         IN PiecesLoop(r.st, n, chunk, out \o r.out)

\* n bytes filled by successive fill_bytes calls of chunk bytes each
FillInPieces(st, n, chunk) == PiecesLoop(st, n, chunk, <<>>)

BbInit ==
    /\ XnIdle
    /\ CwIdle
    /\ ItIdle
    /\ ZgIdle
    /\ ChIdle
    /\ GbIdle
    /\ SqIdle
    /\ FlIdle
    /\ CcIdle
    /\ XsIdle
    /\ EcIdle
    /\ WcIdle
    /\ GrIdle
    /\ RsIdle
    /\ BbIdle

\* next_u32(): the word under the cursor, regenerating at the end of the block
Bb_next_u32 ==
    /\ bb.core < MaxBlocks
    /\ LET s1 == Refilled(bb)
       IN bb' = [s1 EXCEPT !.index = s1.index + 1]
    /\ UNCHANGED <<bb_cmp, wcVars, grVars, rsVars, ecVars, xsVars, ccVars, flVars, sqVars, gbVars, chVars, zgVars, itVars, cwVars, xnVars>>

\* fill_bytes on a destination of n bytes; beside it, the same n bytes asked for in
\* pieces of chunk bytes from the same starting state
Bb_fill_bytes ==
    /\ bb.core < MaxBlocks
    /\ \E n \in 0..MaxLen, chunk \in 1..MaxChunk :
          LET whole == FillBytes(bb, n)
          IN /\ bb' = whole.st
             /\ bb_cmp' = [n |-> n, chunk |-> chunk, before |-> bb, whole |-> whole.out,
                           pieces |-> FillInPieces(bb, n, chunk).out]
    /\ UNCHANGED <<wcVars, grVars, rsVars, ecVars, xsVars, ccVars, flVars, sqVars, gbVars, chVars, zgVars, itVars, cwVars, xnVars>>

BbNext == Bb_next_u32 \/ Bb_fill_bytes

SpecBB == BbInit /\ [][BbNext]_vars

EntropyChain_fill(os_ok, jitter_ok) ==
    IF os_ok THEN [attempts |-> <<"os">>, ok |-> TRUE]
    ELSE [attempts |-> <<"os", "jitter">>, ok |-> jitter_ok]

\* EntropyRng::try_fill_bytes of the wrapper: forwards to the chain
EntropyRng_try_fill_bytes(os_ok, jitter_ok) == EntropyChain_fill(os_ok, jitter_ok)

\* SeedableRng::from_rng: one fallible fill of the seed, then from_seed
SeedableRng_from_rng(filled) ==
    [attempts |-> filled.attempts, result |-> IF filled.ok THEN "seeded" ELSE "err"]

\* from_entropy that swallows the error and hands out a generator all the same
FromEntropy_from_entropy_unchecked(os_ok, jitter_ok) ==
    LET r == SeedableRng_from_rng(EntropyRng_try_fill_bytes(os_ok, jitter_ok))
    IN [attempts |-> r.attempts, result |-> "seeded"]

\* FromEntropy::from_entropy: R::from_rng(EntropyRng::new()), a panic on Err
FromEntropy_from_entropy(os_ok, jitter_ok) ==
    LET r == SeedableRng_from_rng(EntropyRng_try_fill_bytes(os_ok, jitter_ok))
    IN [attempts |-> r.attempts,
        result |-> IF r.result = "err" THEN "panic" ELSE r.result]

\* the record of one call
EcCall(op, os_ok, jitter_ok, r) ==
    [op |-> op, os_ok |-> os_ok, jitter_ok |-> jitter_ok,
     attempts |-> r.attempts, result |-> r.result]

EcInit ==
    /\ XnIdle
    /\ CwIdle
    /\ ItIdle
    /\ ZgIdle
    /\ ChIdle
    /\ GbIdle
    /\ SqIdle
    /\ FlIdle
    /\ CcIdle
    /\ XsIdle
    /\ WcIdle
    /\ GrIdle
    /\ RsIdle
    /\ BbIdle
    /\ ec_hist = <<>>

\* a caller fills a buffer from the EntropyRng
Ec_try_fill_bytes ==
    /\ Len(ec_hist) < MaxEcCalls
    /\ \E os_ok \in BOOLEAN, jitter_ok \in BOOLEAN :
          LET f == EntropyRng_try_fill_bytes(os_ok, jitter_ok)
          IN ec_hist' = Append(ec_hist,
                 EcCall("try_fill_bytes", os_ok, jitter_ok,
                        [attempts |-> f.attempts,
                         result |-> IF f.ok THEN "ok" ELSE "err"]))
    /\ UNCHANGED <<wcVars, grVars, rsVars, bbVars, xsVars, ccVars, flVars, sqVars, gbVars, chVars, zgVars, itVars, cwVars, xnVars>>

\* a caller builds a generator with from_entropy()
Ec_from_entropy ==
    /\ Len(ec_hist) < MaxEcCalls
    /\ \E os_ok \in BOOLEAN, jitter_ok \in BOOLEAN :
          ec_hist' = Append(ec_hist,
              EcCall("from_entropy", os_ok, jitter_ok,
                     FromEntropy_from_entropy(os_ok, jitter_ok)))
    /\ UNCHANGED <<wcVars, grVars, rsVars, bbVars, xsVars, ccVars, flVars, sqVars, gbVars, chVars, zgVars, itVars, cwVars, xnVars>>

EcNext == Ec_try_fill_bytes \/ Ec_from_entropy

SpecEC == EcInit /\ [][EcNext]_vars

(***************************************************************************)
(* Claims about the entropy chain, checked under SpecEC.                   *)
(***************************************************************************)
\* both sources failed in the call c
EcBothFailed(c) == ~c.os_ok /\ ~c.jitter_ok

Xor32(a, b) == [i \in 1..WordBits |-> (a[i] + b[i]) % 2]

\* a << n on u32
Shl32(a, n) == [i \in 1..WordBits |-> IF i > n THEN a[i - n] ELSE 0]

\* a >> n on u32
Shr32(a, n) == [i \in 1..WordBits |-> IF i + n <= WordBits THEN a[i + n] ELSE 0]

\* bit j (from 0) of the byte b
ByteBit(b, j) == (b \div Pow2(j)) % 2

\* the u32 whose most significant byte is bytes[at + 1]
read_u32_be(bytes, at) ==
    [i \in 1..WordBits |->
        ByteBit(bytes[at + U32Bytes - ((i - 1) \div ByteBits)], (i - 1) % ByteBits)]

\* le::read_u32 on the four bytes from offset at (from 0): bytes[at + 1] is the
\* least significant byte
read_u32(bytes, at) ==
    [i \in 1..WordBits |->
        ByteBit(bytes[at + 1 + ((i - 1) \div ByteBits)], (i - 1) % ByteBits)]

\* the four-byte groups seeds are made of
SeedGroups == {<<0, 0, 0, 0>>, <<1, 2, 3, 4>>, <<0, 0, 0, 128>>}

\* the 16-byte seeds
Seeds == {a \o b \o c \o d : a \in SeedGroups, b \in SeedGroups,
                             c \in SeedGroups, d \in SeedGroups}

\* seed.iter().all(|&x| x == 0)
AllZero(seed) == \A k \in 1..Len(seed) : seed[k] = 0

\* from_seed without the assertion: the all-zero seed builds the all-zero state
XorShiftRng_from_seed_unasserted(seed) ==
    XsGen("built", read_u32(seed, 0), read_u32(seed, 4),
          read_u32(seed, 8), read_u32(seed, 12))

\* from_seed that reads the groups most significant byte first
XorShiftRng_from_seed_be(seed) ==
    IF AllZero(seed) THEN XsGen("panic", Zero32, Zero32, Zero32, Zero32)
    ELSE XsGen("built", read_u32_be(seed, 0), read_u32_be(seed, 4),
               read_u32_be(seed, 8), read_u32_be(seed, 12))

\* XorShiftRng::from_seed(seed): the assertion, then x, y, z, w from the groups
XorShiftRng_from_seed(seed) ==
    IF AllZero(seed) THEN XsGen("panic", Zero32, Zero32, Zero32, Zero32)
    ELSE XsGen("built", read_u32(seed, 0), read_u32(seed, 4),
               read_u32(seed, 8), read_u32(seed, 12))

\* the t-th tuple (from 0) of four next_u32 words of the source: lead all-zero
\* tuples, then the seed's bytes as little-endian words, over and over
SourceTuple(seed, lead, t) ==
    IF t < lead THEN <<Zero32, Zero32, Zero32, Zero32>>
    ELSE <<read_u32(seed, 0), read_u32(seed, 4), read_u32(seed, 8), read_u32(seed, 12)>>

\* one pass of from_rng's loop that stores the tuple in the order w, z, y, x
XorShiftRng_from_rng_pass_reversed(tuple) ==
    IF tuple # <<Zero32, Zero32, Zero32, Zero32>>
    THEN XsGen("built", tuple[4], tuple[3], tuple[2], tuple[1])
    ELSE XsGen("drawing", Zero32, Zero32, Zero32, Zero32)

\* one pass of the loop of XorShiftRng::from_rng with the tuple drawn: a tuple
\* other than (0, 0, 0, 0) ends the loop and becomes the state, (0, 0, 0, 0)
\* goes round again
XorShiftRng_from_rng_pass(tuple) ==
    IF tuple # <<Zero32, Zero32, Zero32, Zero32>>
    THEN XsGen("built", tuple[1], tuple[2], tuple[3], tuple[4])
    ELSE XsGen("drawing", Zero32, Zero32, Zero32, Zero32)

\* next_u32 with t left out of the new w
XorShiftRng_next_u32_without_t(g) ==
    LET w_ == Xor32(g.w, Shr32(g.w, 19))
    IN [g |-> XsGen(g.state, g.y, g.z, g.w, w_), out |-> w_]

\* XorShiftRng::next_u32: the generator afterwards and the word returned
XorShiftRng_next_u32(g) ==
    LET t == Xor32(g.x, Shl32(g.x, 11))
        w_ == Xor32(Xor32(g.w, Shr32(g.w, 19)), Xor32(t, Shr32(t, 8)))
    IN [g |-> XsGen(g.state, g.y, g.z, g.w, w_), out |-> w_]

XsInit ==
    /\ XnIdle
    /\ CwIdle
    /\ ItIdle
    /\ ZgIdle
    /\ ChIdle
    /\ GbIdle
    /\ SqIdle
    /\ FlIdle
    /\ CcIdle
    /\ WcIdle
    /\ GrIdle
    /\ RsIdle
    /\ BbIdle
    /\ EcIdle
    /\ xs_seed \in Seeds
    /\ xs_lead \in 0..MaxLead
    /\ xs_a = XsNone
    /\ xs_b = XsNone
    /\ xs_tries = 0
    /\ xs_out_a = <<>>
    /\ xs_out_b = <<>>

\* XorShiftRng::from_seed(xs_seed)
Xs_from_seed ==
    /\ xs_a.state = "none"
    /\ xs_a' = XorShiftRng_from_seed(xs_seed)
    /\ UNCHANGED <<xs_seed, xs_lead, xs_b, xs_tries, xs_out_a, xs_out_b>>
    /\ UNCHANGED <<wcVars, grVars, rsVars, bbVars, ecVars, ccVars, flVars, sqVars, gbVars, chVars, zgVars, itVars, cwVars, xnVars>>

\* XorShiftRng::from_rng(source): one pass of its loop.  The loop has no exit but a
\* non-zero tuple; the model follows it for RetryLimit + 1 passes.
Xs_from_rng ==
    /\ xs_b.state \in {"none", "drawing"}
    /\ xs_tries <= RetryLimit
    /\ xs_b' = XorShiftRng_from_rng_pass(SourceTuple(xs_seed, xs_lead, xs_tries))
    /\ xs_tries' = xs_tries + 1
    /\ UNCHANGED <<xs_seed, xs_lead, xs_a, xs_out_a, xs_out_b>>
    /\ UNCHANGED <<wcVars, grVars, rsVars, bbVars, ecVars, ccVars, flVars, sqVars, gbVars, chVars, zgVars, itVars, cwVars, xnVars>>

\* next_u32 on the generator from_seed built
Xs_next_u32_a ==
    /\ xs_a.state = "built"
    /\ Len(xs_out_a) < MaxStream
    /\ LET r == XorShiftRng_next_u32(xs_a)
       IN /\ xs_a' = r.g
          /\ xs_out_a' = Append(xs_out_a, r.out)
    /\ UNCHANGED <<xs_seed, xs_lead, xs_b, xs_tries, xs_out_b>>
    /\ UNCHANGED <<wcVars, grVars, rsVars, bbVars, ecVars, ccVars, flVars, sqVars, gbVars, chVars, zgVars, itVars, cwVars, xnVars>>

\* next_u32 on the generator from_rng built
Xs_next_u32_b ==
    /\ xs_b.state = "built"
    /\ Len(xs_out_b) < MaxStream
    /\ LET r == XorShiftRng_next_u32(xs_b)
       IN /\ xs_b' = r.g
          /\ xs_out_b' = Append(xs_out_b, r.out)
    /\ UNCHANGED <<xs_seed, xs_lead, xs_a, xs_tries, xs_out_a>>
    /\ UNCHANGED <<wcVars, grVars, rsVars, bbVars, ecVars, ccVars, flVars, sqVars, gbVars, chVars, zgVars, itVars, cwVars, xnVars>>

XsNext == Xs_from_seed \/ Xs_from_rng \/ Xs_next_u32_a \/ Xs_next_u32_b

SpecXS == XsInit /\ [][XsNext]_vars

(***************************************************************************)
(* Claims about XorShiftRng's construction, checked under SpecXS.          *)
(***************************************************************************)
\* byte k (from 0, least significant first) of the u32 w
WordByte(w, k) ==
    LET b(j) == w[ByteBits * k + j + 1]
    IN b(0) + 2 * b(1) + 4 * b(2) + 8 * b(3) + 16 * b(4) + 32 * b(5) + 64 * b(6) + 128 * b(7)

\* u32::to_le_bytes on a u32 given by its bits
Word32LeBytes(w) == <<WordByte(w, 0), WordByte(w, 1), WordByte(w, 2), WordByte(w, 3)>>

\* the 16 bytes a generator's state serializes to, x first
XsStateBytes(g) ==
    Word32LeBytes(g.x) \o Word32LeBytes(g.y) \o Word32LeBytes(g.z) \o Word32LeBytes(g.w)

\* from_seed has run and its generator has not been stepped
XsSeeded == xs_a.state # "none" /\ xs_out_a = <<>>

\* C12: from_seed panics for the all-zero 16-byte seed and succeeds for every other
\* seed, and the state it builds is the seed itself, neither replaced nor perturbed.
C12_FromSeedRejectsZeroOnly ==
    XsSeeded =>
        /\ xs_a.state \in {"built", "panic"}
        /\ (xs_a.state = "panic") <=> AllZero(xs_seed)
        /\ xs_a.state = "built" => XsStateBytes(xs_a) = xs_seed

\* C12 witness: a seed whose only non-zero byte is the last one builds a generator
C12_Witness ==
    /\ XsSeeded
    /\ xs_seed[16] = 128
    /\ \A k \in 1..15 : xs_seed[k] = 0
    /\ xs_a.state = "built"
    /\ XsStateBytes(xs_a) = xs_seed

\* C13 as stated: from_rng draws again at most RetryLimit times after a forbidden
\* all-zero tuple and then fails with an error, so that after RetryLimit + 1 tuples
\* it has returned a generator or an error, whatever the source.
C13_FromRngBoundedRetries ==
    xs_tries > RetryLimit => xs_b.state \in {"built", "err"}

\* the shorter of two streams
XsCommon == Min(Len(xs_out_a), Len(xs_out_b))

\* C14: for every seed, the generator from_seed builds and the generator from_rng
\* builds from a source that yields the seed's bytes as little-endian words return
\* the same next_u32 stream, at every length; a seed from_seed accepts is accepted
\* by from_rng at its first tuple.
C14_SeedAndRngAgree ==
    /\ (xs_a.state = "built" /\ xs_b.state = "built") =>
           /\ \A i \in 1..XsCommon : xs_out_a[i] = xs_out_b[i]
           /\ Len(xs_out_a) = Len(xs_out_b) => xs_a = xs_b
    /\ (xs_lead = 0 /\ xs_tries >= 1 /\ ~AllZero(xs_seed)) =>
           /\ xs_b.state = "built"
           /\ xs_tries = 1

\* C14 witness: both generators have returned two words, which differ from each
\* other, the source of from_rng yielding exactly the seed
C14_Witness ==
    /\ xs_lead = 0
    /\ xs_a.state = "built"
    /\ xs_b.state = "built"
    /\ Len(xs_out_a) >= 2
    /\ Len(xs_out_b) >= 2
    /\ xs_out_a[1] # xs_out_a[2]
    /\ xs_seed[1] # xs_seed[4]

(***************************************************************************)
(* ChaCha's state from a key and a nonce (init_chacha), beside             *)
(* XorShiftRng::from_seed: the two ways a generator's words are read from  *)
(* seed bytes.                                                             *)
(***************************************************************************)

\* read_u32le(xs): xs[0] | xs[1] << 8 | xs[2] << 16 | xs[3] << 24
read_u32le(xs) ==
    [i \in 1..WordBits |-> ByteBit(xs[((i - 1) \div ByteBits) + 1], (i - 1) % ByteBits)]

\* Machine::read_le on 16 bytes: four u32 lanes, each from four bytes, least
\* significant byte first
read_le(xs) ==
    <<read_u32(xs, 0), read_u32(xs, 4), read_u32(xs, 8), read_u32(xs, 12)>>

\* the halves the modelled keys are made of
KeyHalves ==
    {[k \in 1..16 |-> 0], [k \in 1..16 |-> k], [k \in 1..16 |-> 256 - k]}

\* the 32-byte keys
Keys == {s \o t : s \in KeyHalves, t \in KeyHalves}

\* a nonce of 8 bytes and one of 12
Nonces == {[k \in 1..8 |-> 16 + k], [k \in 1..12 |-> 32 + k]}

\* init_chacha(key, nonce)
init_chacha(key, nonce) ==
    LET n == Len(nonce)
        ctr_nonce == <<Zero32,
                       IF n = 12 THEN read_u32le(SubSeq(nonce, 1, 4)) ELSE Zero32,
                       read_u32le(SubSeq(nonce, n - 7, n - 4)),
                       read_u32le(SubSeq(nonce, n - 3, n))>>
    IN [state |-> "built", key |-> key, nonce |-> nonce,
        b |-> read_le(SubSeq(key, 1, 16)),
        c |-> read_le(SubSeq(key, 17, 32)),
        d |-> ctr_nonce]

SdInit == XsInit

\* a ChaCha state is built from a key and a nonce
Cc_init ==
    /\ cc.state = "none"
    /\ \E key \in Keys, nonce \in Nonces : cc' = init_chacha(key, nonce)
    /\ UNCHANGED <<wcVars, grVars, rsVars, bbVars, ecVars, xsVars, flVars, sqVars, gbVars, chVars, zgVars, itVars, cwVars, xnVars>>

SdNext == Xs_from_seed \/ Cc_init

SpecSD == SdInit /\ [][SdNext]_vars

(***************************************************************************)
(* Claims about seed decoding, checked under SpecSD.                       *)
(***************************************************************************)
\* the four bytes of the u32 w are the bytes of seed from offset at (from 0), least
\* significant first
LeGroup(w, seed, at) == \A k \in 0..(U32Bytes - 1) : WordByte(w, k) = seed[at + k + 1]

\* C15: from_seed rebuilds the state from consecutive little-endian 4-byte groups:
\* XorShiftRng's x, y, z, w are the little-endian u32 values of seed bytes 0-3, 4-7,
\* 8-11, 12-15, and ChaCha's key words are the little-endian words of the 32-byte
\* key.
C15_LittleEndianGroups ==
    /\ (XsSeeded /\ xs_a.state = "built") =>
           /\ LeGroup(xs_a.x, xs_seed, 0)
           /\ LeGroup(xs_a.y, xs_seed, 4)
           /\ LeGroup(xs_a.z, xs_seed, 8)
           /\ LeGroup(xs_a.w, xs_seed, 12)
    /\ cc.state = "built" =>
           \A i \in 0..3 :
               /\ LeGroup(cc.b[i + 1], cc.key, U32Bytes * i)
               /\ LeGroup(cc.c[i + 1], cc.key, 16 + U32Bytes * i)

\* C15 witness: an XorShiftRng built from a seed that starts 01 02 03 04 and a ChaCha
\* state built from a key that starts 01 02 03 04, each holding 0x04030201 first
C15_Witness ==
    /\ XsSeeded
    /\ xs_a.state = "built"
    /\ SubSeq(xs_seed, 1, 4) = <<1, 2, 3, 4>>
    /\ Word32LeBytes(xs_a.x) = <<1, 2, 3, 4>>
    /\ cc.state = "built"
    /\ SubSeq(cc.key, 1, 4) = <<1, 2, 3, 4>>
    /\ Word32LeBytes(cc.b[1]) = <<1, 2, 3, 4>>
    /\ Word32LeBytes(cc.c[4]) \in {<<0, 0, 0, 0>>, <<13, 14, 15, 16>>, <<243, 242, 241, 240>>}

(***************************************************************************)
(* Rng::fill on integer slices and fill_bytes.  An integer of k bytes is   *)
(* the sequence of its bytes from the least significant; memory is a       *)
(* sequence of bytes by address, a byte not yet written being Untouched.   *)
(***************************************************************************)

\* a byte of the destination that nothing has written
Untouched == None

\* a destination of n bytes before the call
Blank(n) == [i \in 1..n |-> Untouched]

\* the bytes of s in the opposite order
Reverse(s) == [i \in 1..Len(s) |-> s[Len(s) + 1 - i]]

\* dest with chunk copied to the positions after at
CopyInto(dest, at, chunk) ==
    SubSeq(dest, 1, at) \o chunk \o SubSeq(dest, at + Len(chunk) + 1, Len(dest))

\* the integer the host reads from the bytes mem of its memory
from_native(host, mem) == IF host = "big" THEN Reverse(mem) ELSE mem

\* x.to_le(): the bytes swapped on a big-endian host, x itself on a little-endian
to_le(host, x) == IF host = "big" THEN Reverse(x) ELSE x

\* StepRng::next_u64 with increment 0: the value itself
StepRng_next_u64(x) == x

\* StepRng::next_u32: next_u64 as u32
StepRng_next_u32(x) == SubSeq(StepRng_next_u64(x), 1, U32Bytes)

RECURSIVE fill_bytes_via_next(_, _, _)
\* impls::fill_bytes_via_next on the step generator, at bytes written: whole u64
\* words, then the first bytes of a u64 for a rest above 4 bytes and of a u32 for
\* a rest of 1 to 4 bytes, each word least significant byte first
fill_bytes_via_next(x, dest, at) ==
    IF Len(dest) - at >= U64Bytes
    THEN fill_bytes_via_next(x, CopyInto(dest, at, StepRng_next_u64(x)), at + U64Bytes)
    ELSE IF Len(dest) - at > U32Bytes
    THEN CopyInto(dest, at, SubSeq(StepRng_next_u64(x), 1, Len(dest) - at))
    ELSE IF Len(dest) - at > 0
    THEN CopyInto(dest, at, SubSeq(StepRng_next_u32(x), 1, Len(dest) - at))
    ELSE dest

\* StepRng::fill_bytes(dest)
StepRng_fill_bytes(x, dest) == fill_bytes_via_next(x, dest, 0)

RECURSIVE fill_bytes_via_u32(_, _, _)
\* impls::fill_bytes_via_u32 on an XorShiftRng, at bytes written: one next_u32 per
\* four bytes, least significant byte first, and the first bytes of one more word
\* for the rest
fill_bytes_via_u32(g, dest, at) ==
    IF Len(dest) - at >= U32Bytes
    THEN fill_bytes_via_u32(XorShiftRng_next_u32(g).g,
                            CopyInto(dest, at, Word32LeBytes(XorShiftRng_next_u32(g).out)),
                            at + U32Bytes)
    ELSE IF Len(dest) - at > 0
    THEN [g |-> XorShiftRng_next_u32(g).g,
          dest |-> CopyInto(dest, at, SubSeq(Word32LeBytes(XorShiftRng_next_u32(g).out),
                                              1, Len(dest) - at))]
    ELSE [g |-> g, dest |-> dest]

\* fill_bytes that writes whole words only
XorShiftRng_fill_bytes_whole_words(g, dest) ==
    LET whole == Len(dest) - (Len(dest) % U32Bytes)
        r == fill_bytes_via_u32(g, SubSeq(dest, 1, whole), 0)
    IN [g |-> r.g, dest |-> r.dest \o SubSeq(dest, whole + 1, Len(dest))]

\* XorShiftRng::fill_bytes(dest)
XorShiftRng_fill_bytes(g, dest) == fill_bytes_via_u32(g, dest, 0)

\* the integers the host holds in mem, len elements of size bytes each
Elements(host, mem, size, len) ==
    [e \in 1..len |-> from_native(host, SubSeq(mem, size * (e - 1) + 1, size * e))]

\* AsByteSliceMut::as_byte_slice_mut of [$t] for an integer type of size bytes, on a
\* slice of len elements: `&mut self[0]` is an index out of bounds, a panic, on
\* the empty slice; else the view has len * size_of::<$t>() bytes
as_byte_slice_mut(size, len) ==
    IF len = 0 THEN [panic |-> TRUE, n |-> 0]
    ELSE [panic |-> FALSE, n |-> len * size]

\* fill that leaves the elements as the host reads them
Rng_fill_without_to_le(host, x, size, len) ==
    LET view == as_byte_slice_mut(size, len)
        mem == StepRng_fill_bytes(x, Blank(view.n))
    IN IF view.panic THEN [panic |-> TRUE, mem |-> <<>>, elems |-> <<>>]
       ELSE [panic |-> FALSE, mem |-> mem, elems |-> Elements(host, mem, size, len)]

\* Rng::fill(dest) on a slice of len integers of size bytes, the generator being
\* the step generator: fill_bytes on the slice's memory, then to_le on each element
Rng_fill(host, x, size, len) ==
    LET view == as_byte_slice_mut(size, len)
        mem == StepRng_fill_bytes(x, Blank(view.n))
        native == Elements(host, mem, size, len)
    IN IF view.panic THEN [panic |-> TRUE, mem |-> <<>>, elems |-> <<>>]
       ELSE [panic |-> FALSE, mem |-> mem,
             elems |-> [e \in 1..len |-> to_le(host, native[e])]]

\* Rng::try_fill(dest): as fill, through try_fill_bytes, which on the step
\* generator is fill_bytes and returns Ok
Rng_try_fill(host, x, size, len) == Rng_fill(host, x, size, len)

\* the values of the step generator: 0x1122334455667788 and 9041086907909331047
StepValues ==
    {<<136, 119, 102, 85, 68, 51, 34, 17>>, <<103, 216, 94, 25, 164, 100, 120, 125>>}

\* the sizes in bytes of the element types filled: u32 and u64
ElemSizes == {U32Bytes, U64Bytes}

FlInit ==
    /\ XnIdle
    /\ CwIdle
    /\ ItIdle
    /\ ZgIdle
    /\ ChIdle
    /\ GbIdle
    /\ SqIdle
    /\ WcIdle
    /\ GrIdle
    /\ RsIdle
    /\ BbIdle
    /\ EcIdle
    /\ XsIdle
    /\ CcIdle
    /\ fl_host \in {"little", "big"}
    /\ fl_x \in StepValues
    /\ fl_xs = XorShiftRng_from_seed(<<1, 2, 3, 4, 0, 0, 0, 128, 0, 0, 0, 0, 1, 2, 3, 4>>)
    /\ fl_calls = 0
    /\ fl_last = NoFlCall

\* rng.fill(&mut array[..]) on the step generator
Fl_fill ==
    /\ fl_calls < MaxFlCalls
    /\ \E size \in ElemSizes, len \in 0..MaxElems :
          LET r == Rng_fill(fl_host, fl_x, size, len)
          IN fl_last' = [op |-> IF r.panic THEN "fill_panic" ELSE "fill",
                         size |-> size, len |-> len, n |-> Len(r.mem),
                         before |-> fl_xs, mem |-> r.mem, elems |-> r.elems]
    /\ fl_calls' = fl_calls + 1
    /\ UNCHANGED <<fl_host, fl_x, fl_xs>>
    /\ UNCHANGED <<wcVars, grVars, rsVars, bbVars, ecVars, xsVars, ccVars, sqVars, gbVars, chVars, zgVars, itVars, cwVars, xnVars>>

\* rng.try_fill(&mut array[..]) on the step generator
Fl_try_fill ==
    /\ fl_calls < MaxFlCalls
    /\ \E size \in ElemSizes, len \in 0..MaxElems :
          LET r == Rng_try_fill(fl_host, fl_x, size, len)
          IN fl_last' = [op |-> IF r.panic THEN "try_fill_panic" ELSE "try_fill",
                         size |-> size, len |-> len, n |-> Len(r.mem),
                         before |-> fl_xs, mem |-> r.mem, elems |-> r.elems]
    /\ fl_calls' = fl_calls + 1
    /\ UNCHANGED <<fl_host, fl_x, fl_xs>>
    /\ UNCHANGED <<wcVars, grVars, rsVars, bbVars, ecVars, xsVars, ccVars, sqVars, gbVars, chVars, zgVars, itVars, cwVars, xnVars>>

\* r.fill_bytes(v) on the step generator
Fl_fill_bytes_step ==
    /\ fl_calls < MaxFlCalls
    /\ \E n \in 0..MaxDest :
          fl_last' = [op |-> "fill_bytes_step", size |-> 1, len |-> n, n |-> n,
                      before |-> fl_xs, mem |-> StepRng_fill_bytes(fl_x, Blank(n)),
                      elems |-> <<>>]
    /\ fl_calls' = fl_calls + 1
    /\ UNCHANGED <<fl_host, fl_x, fl_xs>>
    /\ UNCHANGED <<wcVars, grVars, rsVars, bbVars, ecVars, xsVars, ccVars, sqVars, gbVars, chVars, zgVars, itVars, cwVars, xnVars>>

\* fill_bytes(dest) on the XorShiftRng
Fl_fill_bytes_xorshift ==
    /\ fl_calls < MaxFlCalls
    /\ \E n \in 0..MaxDest :
          LET r == XorShiftRng_fill_bytes(fl_xs, Blank(n))
          IN /\ fl_xs' = r.g
             /\ fl_last' = [op |-> "fill_bytes_xorshift", size |-> 1, len |-> n, n |-> n,
                            before |-> fl_xs, mem |-> r.dest, elems |-> <<>>]
    /\ fl_calls' = fl_calls + 1
    /\ UNCHANGED <<fl_host, fl_x>>
    /\ UNCHANGED <<wcVars, grVars, rsVars, bbVars, ecVars, xsVars, ccVars, sqVars, gbVars, chVars, zgVars, itVars, cwVars, xnVars>>

FlNext == Fl_fill \/ Fl_try_fill \/ Fl_fill_bytes_step \/ Fl_fill_bytes_xorshift

SpecFL == FlInit /\ [][FlNext]_vars

(***************************************************************************)
(* Claims about fill and fill_bytes, checked under SpecFL.                 *)
(***************************************************************************)
\* the little-endian decoding of the e-th group of size bytes of the stream mem
LeElement(mem, size, e) == SubSeq(mem, size * (e - 1) + 1, size * e)

\* C16: Rng::fill on an integer slice yields elements equal to the little-endian
\* decoding of the byte stream fill_bytes wrote, on little- and big-endian hosts
\* alike: with a generator that always yields the u64 x, a [u64] holds x in every
\* element and a [u32] holds x as u32 and x >> 32 alternately.
C16_FillLittleEndian ==
    fl_last.op = "fill" =>
        /\ Len(fl_last.elems) = fl_last.len
        /\ \A e \in 1..fl_last.len :
               /\ fl_last.elems[e] = LeElement(fl_last.mem, fl_last.size, e)
               /\ fl_last.size = U64Bytes => fl_last.elems[e] = fl_x
               /\ fl_last.size = U32Bytes =>
                      fl_last.elems[e] = IF e % 2 = 1 THEN SubSeq(fl_x, 1, 4)
                                         ELSE SubSeq(fl_x, 5, 8)

\* C16 witness: on a big-endian host a [u32] of three elements is filled with the low
\* half, the high half and the low half of x
C16_Witness ==
    /\ fl_last.op = "fill"
    /\ fl_host = "big"
    /\ fl_last.size = U32Bytes
    /\ fl_last.len = 3
    /\ fl_last.elems = <<SubSeq(fl_x, 1, 4), SubSeq(fl_x, 5, 8), SubSeq(fl_x, 1, 4)>>
    /\ fl_last.elems[1] # Reverse(fl_last.elems[1])

RECURSIVE XsStream(_, _, _)
\* the bytes of the first k words next_u32 returns from the generator g, each word
\* least significant byte first, after out
XsStream(g, k, out) ==
    IF Len(out) >= k * U32Bytes THEN out
    ELSE XsStream(XorShiftRng_next_u32(g).g, k,
                  out \o Word32LeBytes(XorShiftRng_next_u32(g).out))

\* C17: for every destination length n >= 0, a multiple of the word size or not,
\* fill_bytes overwrites all n bytes with generator output and leaves none untouched.
C17_FillBytesOverwritesAll ==
    /\ fl_last.op \in {"fill_bytes_step", "fill_bytes_xorshift"} =>
           /\ Len(fl_last.mem) = fl_last.n
           /\ \A i \in 1..fl_last.n :
                  fl_last.mem[i] # Untouched /\ fl_last.mem[i] \in 0..255
    /\ fl_last.op = "fill_bytes_step" =>
           \A i \in 1..fl_last.n : fl_last.mem[i] = fl_x[((i - 1) % U64Bytes) + 1]
    /\ fl_last.op = "fill_bytes_xorshift" =>
           fl_last.mem =
               SubSeq(XsStream(fl_last.before, (fl_last.n + U32Bytes - 1) \div U32Bytes, <<>>),
                      1, fl_last.n)

\* C17 witness: a second fill_bytes on the XorShiftRng, of two words and three bytes,
\* has written every byte, the last three from a third word
C17_Witness ==
    /\ fl_last.op = "fill_bytes_xorshift"
    /\ fl_calls = 2
    /\ fl_last.before # XsNone
    /\ fl_last.n = 2 * U32Bytes + 3
    /\ \A i \in 1..fl_last.n : fl_last.mem[i] \in 0..255
    /\ fl_xs # XorShiftRng_next_u32(XorShiftRng_next_u32(fl_last.before).g).g

\* C29: Rng::fill and Rng::try_fill complete without panicking for every slice
\* length, zero-length slices of multi-byte integer types included; the byte view
\* they fill has len * size_of(element) bytes, and for length 0 nothing is drawn
\* from the generator.
C29_FillNeverPanics ==
    fl_last.op \in {"fill", "try_fill", "fill_panic", "try_fill_panic"} =>
        /\ fl_last.op \in {"fill", "try_fill"}
        /\ Len(fl_last.mem) = fl_last.len * fl_last.size
        /\ Len(fl_last.elems) = fl_last.len
        /\ fl_last.len = 0 => fl_last.mem = <<>>

(***************************************************************************)
(* Rng::shuffle, Rng::choose and Rng::choose_mut (the same code as the     *)
(* Shuffle and Choose traits of sequences).  Indices are the code's, from  *)
(* 0; gen_range(0, high) returns any value of [0, high).                   *)
(***************************************************************************)

\* the values gen_range(0, high) can return
GenRangeFromZero(high) == 0..(high - 1)

\* the draw of shuffle's loop taken from the whole slice: gen_range(0, len)
ShuffleDraws_whole_slice(i, len) == GenRangeFromZero(len)

\* the draw of shuffle's loop at index i: gen_range(0, i + 1)
ShuffleDraws(i, len) == GenRangeFromZero(i + 1)

\* a swap that copies values[j] over values[i] and loses values[i]
swap_overwriting(values, i, j) == [values EXCEPT ![i + 1] = values[j + 1]]

\* values.swap(i, j)
swap(values, i, j) ==
    [values EXCEPT ![i + 1] = values[j + 1], ![j + 1] = values[i + 1]]

\* the outcomes of choose with the index drawn from [0, len]
Rng_choose_inclusive(values) ==
    IF Len(values) = 0 THEN {[kind |-> "None", idx |-> None, value |-> None, draws |-> <<>>]}
    ELSE {[kind |-> IF j < Len(values) THEN "Some" ELSE "panic_index", idx |-> j,
           value |-> IF j < Len(values) THEN values[j + 1] ELSE None,
           draws |-> <<[high |-> Len(values) + 1, j |-> j]>>] : j \in 0..Len(values)}

\* Rng::choose(values): None for an empty slice, else Some(&values[gen_range(0,
\* len)]); the outcomes with the gen_range call each one made
Rng_choose(values) ==
    IF Len(values) = 0 THEN {[kind |-> "None", idx |-> None, value |-> None, draws |-> <<>>]}
    ELSE {[kind |-> "Some", idx |-> j, value |-> values[j + 1],
           draws |-> <<[high |-> Len(values), j |-> j]>>] :
          j \in GenRangeFromZero(Len(values))}

\* Rng::choose_mut(values): as choose, the reference being mutable
Rng_choose_mut(values) ==
    IF Len(values) = 0 THEN {[kind |-> "None", idx |-> None, value |-> None, draws |-> <<>>]}
    ELSE {[kind |-> "Some", idx |-> j, value |-> values[j + 1],
           draws |-> <<[high |-> Len(values), j |-> j]>>] :
          j \in GenRangeFromZero(Len(values))}

RECURSIVE SeqsOver(_, _)
\* the sequences of length n over the set S
SeqsOver(S, n) ==
    IF n = 0 THEN {<<>>}
    ELSE {Append(s, v) : s \in SeqsOver(S, n - 1), v \in S}

\* the slices: 1, 2, .., n in order (distinct elements) and every sequence over
\* {1, 2} (repeated elements), of up to MaxSlice elements
Slices ==
    {[k \in 1..n |-> k] : n \in 0..MaxSlice}
        \cup UNION {SeqsOver({1, 2}, n) : n \in 0..MaxSlice}

SqInit ==
    /\ XnIdle
    /\ CwIdle
    /\ ItIdle
    /\ ZgIdle
    /\ ChIdle
    /\ GbIdle
    /\ WcIdle
    /\ GrIdle
    /\ RsIdle
    /\ BbIdle
    /\ EcIdle
    /\ XsIdle
    /\ CcIdle
    /\ FlIdle
    /\ sq_orig \in Slices
    /\ sq_values = sq_orig
    /\ sq_i = 0
    /\ sq_state = "fresh"
    /\ sq_draws = <<>>
    /\ sq_choice = NoChoice

\* shuffle(values) is entered: let mut i = values.len(); a slice of fewer than two
\* elements never enters the loop
Sq_shuffle_enter ==
    /\ sq_state = "fresh"
    /\ sq_i' = Len(sq_values)
    /\ sq_state' = IF Len(sq_values) >= 2 THEN "shuffling" ELSE "shuffled"
    /\ UNCHANGED <<sq_orig, sq_values, sq_draws, sq_choice>>
    /\ UNCHANGED <<wcVars, grVars, rsVars, bbVars, ecVars, xsVars, ccVars, flVars, gbVars, chVars, zgVars, itVars, cwVars, xnVars>>

\* one pass of shuffle's loop: i -= 1; values.swap(i, gen_range(0, i + 1)); the
\* loop ends when i < 2
Sq_shuffle_pass ==
    /\ sq_state = "shuffling"
    /\ sq_i >= 2
    /\ \E j \in ShuffleDraws(sq_i - 1, Len(sq_values)) :
          /\ sq_values' = swap(sq_values, sq_i - 1, j)
          /\ sq_draws' = Append(sq_draws, [high |-> sq_i, j |-> j])
    /\ sq_i' = sq_i - 1
    /\ sq_state' = IF sq_i - 1 >= 2 THEN "shuffling" ELSE "shuffled"
    /\ UNCHANGED <<sq_orig, sq_choice>>
    /\ UNCHANGED <<wcVars, grVars, rsVars, bbVars, ecVars, xsVars, ccVars, flVars, gbVars, chVars, zgVars, itVars, cwVars, xnVars>>

\* rng.choose(values)
Sq_choose ==
    /\ sq_state = "fresh"
    /\ \E out \in Rng_choose(sq_values) :
          /\ sq_choice' = [kind |-> out.kind, idx |-> out.idx, value |-> out.value]
          /\ sq_draws' = out.draws
    /\ sq_state' = "chosen"
    /\ UNCHANGED <<sq_orig, sq_values, sq_i>>
    /\ UNCHANGED <<wcVars, grVars, rsVars, bbVars, ecVars, xsVars, ccVars, flVars, gbVars, chVars, zgVars, itVars, cwVars, xnVars>>

\* rng.choose_mut(values)
Sq_choose_mut ==
    /\ sq_state = "fresh"
    /\ \E out \in Rng_choose_mut(sq_values) :
          /\ sq_choice' = [kind |-> out.kind, idx |-> out.idx, value |-> out.value]
          /\ sq_draws' = out.draws
    /\ sq_state' = "chosen_mut"
    /\ UNCHANGED <<sq_orig, sq_values, sq_i>>
    /\ UNCHANGED <<wcVars, grVars, rsVars, bbVars, ecVars, xsVars, ccVars, flVars, gbVars, chVars, zgVars, itVars, cwVars, xnVars>>

SqNext == Sq_shuffle_enter \/ Sq_shuffle_pass \/ Sq_choose \/ Sq_choose_mut

SpecSQ == SqInit /\ [][SqNext]_vars

(***************************************************************************)
(* Claims about shuffle and choose, checked under SpecSQ.                  *)
(***************************************************************************)
\* no element occurs twice in s
Distinct(s) == \A a \in 1..Len(s), b \in 1..Len(s) : a # b => s[a] # s[b]

\* the draw sequences of a shuffle of n elements: the k-th draw, made at i = n - k,
\* is a value of [0, i]
DrawSeqs(n) ==
    IF n < 2 THEN {<<>>}
    ELSE {d \in [1..(n - 1) -> 0..(n - 1)] : \A k \in 1..(n - 1) : d[k] <= n - k}

RECURSIVE ApplyDraws(_, _, _)
\* the order the draws d give from their k-th on: the k-th swaps index
\* Len(values) - k with index d[k]
ApplyDraws(values, d, k) ==
    IF k > Len(d) THEN values
    ELSE ApplyDraws(swap(values, Len(values) - k, d[k]), d, k + 1)

\* the orders the draw sequences give
Orders(values) == {ApplyDraws(values, d, 1) : d \in DrawSeqs(Len(values))}

\* the permutations of the slice
AllPermutations(values) ==
    {[k \in 1..Len(values) |-> values[p[k]]] :
        p \in {f \in [1..Len(values) -> 1..Len(values)] :
                  \A a \in 1..Len(values), b \in 1..Len(values) : a # b => f[a] # f[b]}}

RECURSIVE Factorial(_)
Factorial(n) == IF n <= 1 THEN 1 ELSE n * Factorial(n - 1)

\* the values j of the draws made
DrawnJs == [k \in 1..Len(sq_draws) |-> sq_draws[k].j]

\* C18: shuffle of n distinct elements makes exactly n - 1 draws, for i = n - 1 down
\* to 1 one draw j of [0, i], and the map from draw sequences to resulting orders
\* is a bijection onto all n! permutations.
C18_ShuffleUnbiased ==
    (sq_state = "shuffled" /\ Distinct(sq_orig)) =>
        LET n == Len(sq_orig)
        IN /\ Len(sq_draws) = IF n = 0 THEN 0 ELSE n - 1
           /\ \A k \in 1..Len(sq_draws) :
                  /\ sq_draws[k].high = (n - k) + 1
                  /\ sq_draws[k].j \in 0..(n - k)
           /\ sq_values = ApplyDraws(sq_orig, DrawnJs, 1)
           /\ Orders(sq_orig) = AllPermutations(sq_orig)
           /\ Cardinality(DrawSeqs(n)) = Cardinality(Orders(sq_orig))
           /\ Cardinality(Orders(sq_orig)) = Factorial(n)

\* C18 witness: 1, 2, 3, 4 shuffled into 4, 3, 2, 1 by three draws
C18_Witness ==
    /\ sq_state = "shuffled"
    /\ sq_orig = <<1, 2, 3, 4>>
    /\ sq_values = <<4, 3, 2, 1>>
    /\ Len(sq_draws) = 3

\* how often v occurs in s
Count(s, v) == Cardinality({k \in 1..Len(s) : s[k] = v})

\* C19: after shuffle the slice holds the same multiset of elements as before, with
\* the same length, whatever was drawn; slices of length 0 and 1 are left unchanged
\* and consume no randomness.
C19_ShufflePermutes ==
    sq_state \in {"shuffling", "shuffled"} =>
        /\ Len(sq_values) = Len(sq_orig)
        /\ \A v \in 1..MaxSlice : Count(sq_values, v) = Count(sq_orig, v)
        /\ Len(sq_orig) <= 1 =>
               /\ sq_state = "shuffled"
               /\ sq_values = sq_orig
               /\ sq_draws = <<>>

\* C19 witness: a slice with a repeated element comes out in another order
C19_Witness ==
    /\ sq_state = "shuffled"
    /\ sq_orig = <<1, 2, 2>>
    /\ sq_values = <<2, 2, 1>>

\* C20: choose and choose_mut return None exactly when the slice is empty, without
\* consuming randomness; otherwise they return the element at an index drawn from
\* [0, len), which is an element of the slice.
C20_ChooseElement ==
    sq_state \in {"chosen", "chosen_mut"} =>
        /\ sq_choice.kind \in {"None", "Some"}
        /\ (sq_choice.kind = "None") <=> (Len(sq_values) = 0)
        /\ sq_choice.kind = "None" => sq_draws = <<>>
        /\ sq_choice.kind = "Some" =>
               /\ Len(sq_draws) = 1
               /\ sq_draws[1].high = Len(sq_values)
               /\ sq_choice.idx = sq_draws[1].j
               /\ sq_choice.idx \in 0..(Len(sq_values) - 1)
               /\ sq_choice.value = sq_values[sq_choice.idx + 1]
               /\ \E k \in 1..Len(sq_values) : sq_values[k] = sq_choice.value
        /\ sq_values = sq_orig

\* C20 witness: choose_mut returns the last element of three
C20_Witness ==
    /\ sq_state = "chosen_mut"
    /\ sq_orig = <<1, 2, 3>>
    /\ sq_choice = [kind |-> "Some", idx |-> 2, value |-> 3]

(***************************************************************************)
(* Rng::gen_bool.  The probability p is a multiple of 1 / ProbDen, for     *)
(* which p * u32::MAX is exact in an f64; the word is IntBits wide, so     *)
(* that every word the generator can yield is tried.                       *)
(***************************************************************************)

\* core::u32::MAX at the modelled width
WordMax == WordSpace - 1

\* (p * f64::from(core::u32::MAX)) as u32 for p = k / ProbDen: the cast truncates
PInt(k) == (k * WordMax) \div ProbDen

\* Rng::gen_bool(p) with the word self.gen::<u32>() returns, p = k / ProbDen: the
\* assertion on p, then word <= p_int
Rng_gen_bool(k, word) ==
    IF ~(k >= 0 /\ k <= ProbDen)
    THEN [p |-> k, word |-> None, p_int |-> None, result |-> "panic"]
    ELSE [p |-> k, word |-> word, p_int |-> PInt(k),
          result |-> IF word <= PInt(k) THEN "true" ELSE "false"]

GbInit ==
    /\ XnIdle
    /\ CwIdle
    /\ ItIdle
    /\ ZgIdle
    /\ ChIdle
    /\ WcIdle
    /\ GrIdle
    /\ RsIdle
    /\ BbIdle
    /\ EcIdle
    /\ XsIdle
    /\ CcIdle
    /\ FlIdle
    /\ SqIdle
    /\ gb_last = NoGenBool

\* rng.gen_bool(p), for p from just below 0 to just above 1
Gb_gen_bool ==
    /\ \E k \in (0 - 1)..(ProbDen + 1), word \in Words :
          gb_last' = Rng_gen_bool(k, word)
    /\ UNCHANGED <<wcVars, grVars, rsVars, bbVars, ecVars, xsVars, ccVars, flVars, sqVars, chVars, zgVars, itVars, cwVars, xnVars>>

GbNext == Gb_gen_bool

SpecGB == GbInit /\ [][GbNext]_vars

(***************************************************************************)
(* Claims about gen_bool, checked under SpecGB.                            *)
(***************************************************************************)
\* C21 as stated: gen_bool is exact at the endpoints: for every word the generator
\* can yield, gen_bool(0.0) returns false and gen_bool(1.0) returns true.
C21_GenBoolExactAtEndpoints ==
    /\ gb_last.p = 0 /\ gb_last.result # "none" => gb_last.result = "false"
    /\ gb_last.p = ProbDen => gb_last.result = "true"

(***************************************************************************)
(* Sampling a char (Distribution<char> for Uniform): rejection sampling    *)
(* on the low 21 bits of a word.                                           *)
(***************************************************************************)

\* CHAR_MASK: a char is 21 bits
CharMask == 2097151

\* the largest code point, 0x10FFFF
MaxScalar == 1114111

\* the first surrogate code point, 0xD800
SurrogateLow == 55296

\* the last surrogate code point, 0xDFFF
SurrogateHigh == 57343

\* v is a Unicode scalar value
IsScalar(v) == v >= 0 /\ v <= MaxScalar /\ ~(v >= SurrogateLow /\ v <= SurrogateHigh)

\* char::from_u32(v): Some(c) for a scalar value, None otherwise
char_from_u32(v) == IF IsScalar(v) THEN v ELSE None

\* word & CHAR_MASK, the mask being all ones below bit 21
MaskChar(word) == word % (CharMask + 1)

\* the 21-bit patterns tried: those within CharWindow of the ends of the ranges
CharPatterns ==
    {v \in UNION {(b - CharWindow)..(b + CharWindow) :
                     b \in {0, SurrogateLow, SurrogateHigh, MaxScalar, CharMask}} :
        v >= 0 /\ v <= CharMask}

\* the words the generator yields: the patterns under different high bits
CharWords == {h * (CharMask + 1) + v : h \in {0, 1, 1023}, v \in CharPatterns}

\* one pass of the loop that converts without the check
Uniform_char_pass_unchecked(word) ==
    [pattern |-> MaskChar(word), c |-> MaskChar(word)]

\* one pass of the loop of sample: the pattern handed to char::from_u32 and the
\* char it gives, None sending the loop round again
Uniform_char_pass(word) ==
    [pattern |-> MaskChar(word), c |-> char_from_u32(MaskChar(word))]

ChInit ==
    /\ XnIdle
    /\ CwIdle
    /\ ItIdle
    /\ ZgIdle
    /\ WcIdle
    /\ GrIdle
    /\ RsIdle
    /\ BbIdle
    /\ EcIdle
    /\ XsIdle
    /\ CcIdle
    /\ FlIdle
    /\ SqIdle
    /\ GbIdle
    /\ ch_state = "fresh"
    /\ ch_log = <<>>
    /\ ch_result = None

\* one pass of the loop with the word rng.next_u32() returns; the model follows a
\* call for MaxCharDraws passes
Ch_sample_pass ==
    /\ ch_state \in {"fresh", "sampling"}
    /\ Len(ch_log) < MaxCharDraws
    /\ \E word \in CharWords :
          LET r == Uniform_char_pass(word)
          IN /\ ch_log' = Append(ch_log, r.pattern)
             /\ ch_result' = r.c
             /\ ch_state' = IF r.c # None THEN "returned" ELSE "sampling"
    /\ UNCHANGED <<wcVars, grVars, rsVars, bbVars, ecVars, xsVars, ccVars, flVars, sqVars, gbVars, zgVars, itVars, cwVars, xnVars>>

\* the caller samples another char
Ch_sample_again ==
    /\ ch_state = "returned"
    /\ ch_state' = "fresh"
    /\ ch_log' = <<>>
    /\ ch_result' = None
    /\ UNCHANGED <<wcVars, grVars, rsVars, bbVars, ecVars, xsVars, ccVars, flVars, sqVars, gbVars, zgVars, itVars, cwVars, xnVars>>

ChNext == Ch_sample_pass \/ Ch_sample_again

SpecCH == ChInit /\ [][ChNext]_vars

(***************************************************************************)
(* Claims about char sampling, checked under SpecCH.                       *)
(***************************************************************************)
\* C22: sampling a char returns only Unicode scalar values; every 21-bit pattern
\* that is not a scalar value is rejected and redrawn, and each scalar value is
\* produced by exactly one 21-bit pattern.
C22_CharScalarOnly ==
    /\ ch_state = "returned" =>
           /\ IsScalar(ch_result)
           /\ ch_result = ch_log[Len(ch_log)]
           /\ \A k \in 1..(Len(ch_log) - 1) : ~IsScalar(ch_log[k])
    /\ ch_state = "sampling" =>
           /\ ch_result = None
           /\ \A k \in 1..Len(ch_log) : ~IsScalar(ch_log[k])
    /\ \A p \in CharPatterns, q \in CharPatterns :
           (IsScalar(p) /\ char_from_u32(p) = char_from_u32(q)) => p = q
    /\ \A p \in CharPatterns : IsScalar(p) <=> char_from_u32(p) # None

\* C22 witness: the last surrogate and the first pattern above 0x10FFFF are
\* rejected, then 0xE000 is returned
C22_Witness ==
    /\ ch_state = "returned"
    /\ ch_log = <<SurrogateHigh, MaxScalar + 1, SurrogateHigh + 1>>
    /\ ch_result = SurrogateHigh + 1


(***************************************************************************)
(* The Ziggurat loop: ziggurat (src/src/distributions/mod.rs). Floats are  *)
(* fractions over ZigScale; the tables, the density and the zero case are  *)
(* arguments of the call.                                                  *)
(***************************************************************************)
\* the x_tab argument: ZigLayers + 1 abscissae, decreasing to 0
x_tab(i) == ZigLayers - i

\* the f_tab argument: the density at the abscissae, increasing to the one at 0
f_tab(i) == i

\* the values `(bits & 0xff) as usize` takes
ZigIndices == 0..(ZigLayers - 1)

\* the values `(bits >> 11) as f64 / SCALE` and rng.gen::<f64>() take, times ZigScale
ZigFractions == 0..(ZigScale - 1)

\* the values the pdf closure returns, on the scale of f_tab
PdfValues == 0..ZigLayers

\* the values the zero_case closure returns, times ZigScale: beyond every layer
TailValues == {x_tab(0) * ZigScale + k : k \in 1..2}

\* u, times ZigScale: U(-1, 1) when symmetric, U(0, 1) otherwise
ZigU(symmetric, f) == IF symmetric THEN 2 * f - ZigScale ELSE f

\* test_x, times ZigScale
TestX(symmetric, x) == IF symmetric /\ x < 0 THEN 0 - x ELSE x

\* test_x < x_tab[i + 1]
FastPath(symmetric, i, x) == TestX(symmetric, x) < x_tab(i + 1) * ZigScale

\* f_tab[i + 1] + (f_tab[i] - f_tab[i + 1]) * r < pdf(x), r a fraction over ZigScale
UnderDensity(i, r, pdf) ==
    f_tab(i + 1) * ZigScale + (f_tab(i) - f_tab(i + 1)) * r < pdf * ZigScale

\* a pass of the loop, by what it drew, what it called and how it ended
ZigPass(i, u, x, r, pdf, zero, exit, value) ==
    [i |-> i, u |-> u, x |-> x, r |-> r, pdf |-> pdf, zero |-> zero,
     exit |-> exit, value |-> value]

\* one pass with the bottom-layer test ahead of the fast path
ziggurat_pass_zero_first(symmetric, i, f, r, pdf, zero) ==
    LET u == ZigU(symmetric, f)
        x == u * x_tab(i)
    IN IF i = 0 THEN ZigPass(i, u, x, None, None, zero, "zero_case", zero)
       ELSE IF FastPath(symmetric, i, x)
            THEN ZigPass(i, u, x, None, None, None, "fast", x)
            ELSE IF UnderDensity(i, r, pdf)
                 THEN ZigPass(i, u, x, r, pdf, None, "density", x)
                 ELSE ZigPass(i, u, x, r, pdf, None, "repeat", None)

\* one pass of the loop of ziggurat: bits yields the layer i and the fraction f; r
\* is what rng.gen::<f64>() yields, pdf what pdf(x) returns and zero what
\* zero_case(rng, u) returns, should the pass get to them
ziggurat_pass(symmetric, i, f, r, pdf, zero) ==
    LET u == ZigU(symmetric, f)
        x == u * x_tab(i)
    IN IF FastPath(symmetric, i, x)
       THEN ZigPass(i, u, x, None, None, None, "fast", x)
       ELSE IF i = 0
            THEN ZigPass(i, u, x, None, None, zero, "zero_case", zero)
            ELSE IF UnderDensity(i, r, pdf)
                 THEN ZigPass(i, u, x, r, pdf, None, "density", x)
                 ELSE ZigPass(i, u, x, r, pdf, None, "repeat", None)

ZgInit ==
    /\ XnIdle
    /\ CwIdle
    /\ ItIdle
    /\ WcIdle
    /\ GrIdle
    /\ RsIdle
    /\ BbIdle
    /\ EcIdle
    /\ XsIdle
    /\ CcIdle
    /\ FlIdle
    /\ SqIdle
    /\ GbIdle
    /\ ChIdle
    /\ zg_symmetric \in BOOLEAN
    /\ zg_state = "looping"
    /\ zg_trace = <<>>
    /\ zg_result = None

\* one pass of the loop; the model follows a call for MaxZigPasses passes
Zg_pass ==
    /\ zg_state = "looping"
    /\ Len(zg_trace) < MaxZigPasses
    /\ \E i \in ZigIndices, f \in ZigFractions, r \in ZigFractions,
          pdf \in PdfValues, zero \in TailValues :
          LET p == ziggurat_pass(zg_symmetric, i, f, r, pdf, zero)
          IN /\ zg_trace' = Append(zg_trace, p)
             /\ zg_result' = p.value
             /\ zg_state' = IF p.exit = "repeat" THEN "looping" ELSE "returned"
    /\ UNCHANGED <<zg_symmetric, wcVars, grVars, rsVars, bbVars, ecVars, xsVars, ccVars, flVars, sqVars, gbVars, chVars, itVars, cwVars, xnVars>>

\* the caller samples again, from a distribution of either symmetry
Zg_again ==
    /\ zg_state = "returned"
    /\ zg_symmetric' \in BOOLEAN
    /\ zg_state' = "looping"
    /\ zg_trace' = <<>>
    /\ zg_result' = None
    /\ UNCHANGED <<wcVars, grVars, rsVars, bbVars, ecVars, xsVars, ccVars, flVars, sqVars, gbVars, chVars, itVars, cwVars, xnVars>>

ZgNext == Zg_pass \/ Zg_again

SpecZG == ZgInit /\ [][ZgNext]_vars

(***************************************************************************)
(* Claims about the Ziggurat loop, checked under SpecZG.                   *)
(***************************************************************************)
\* the pass p of a call went by the order of the three tests
ZgInOrder(symmetric, p) ==
    LET fast == FastPath(symmetric, p.i, p.x)
    IN /\ p.x = p.u * x_tab(p.i)
       /\ p.exit = "fast" <=> fast
       /\ p.exit = "zero_case" <=> (~fast /\ p.i = 0)
       /\ p.exit = "density" <=> (~fast /\ p.i # 0 /\ UnderDensity(p.i, p.r, p.pdf))
       /\ p.exit = "repeat" <=> (~fast /\ p.i # 0 /\ ~UnderDensity(p.i, p.r, p.pdf))
       /\ p.r # None <=> (~fast /\ p.i # 0)
       /\ p.pdf # None <=> (~fast /\ p.i # 0)
       /\ p.zero # None <=> (~fast /\ p.i = 0)
       /\ p.exit \in {"fast", "density"} => p.value = p.x
       /\ p.exit = "zero_case" => p.value = p.zero

\* C25: every pass of the ziggurat loop goes in this order: x is returned at once
\* if |x| < x_tab[i + 1]; else if i = 0 the value of the zero case is returned;
\* else one more uniform is drawn and x is returned only if the interpolated
\* ordinate is below the density at x; the loop repeats only when that last test
\* fails, and the zero case is reached only for layer 0 after the fast path failed.
C25_ZigguratOrder ==
    /\ \A k \in 1..Len(zg_trace) :
          /\ ZgInOrder(zg_symmetric, zg_trace[k])
          /\ k < Len(zg_trace) => zg_trace[k].exit = "repeat"
    /\ zg_state = "returned" <=>
          (zg_trace # <<>> /\ zg_trace[Len(zg_trace)].exit # "repeat")
    /\ zg_state = "returned" => zg_result = zg_trace[Len(zg_trace)].value
    /\ zg_state = "looping" => zg_result = None

\* C25 witness: a symmetric call whose first pass failed the density test and
\* whose second pass, in layer 0 with a negative x, returned the zero case's value
C25_Witness ==
    /\ zg_state = "returned"
    /\ zg_symmetric
    /\ Len(zg_trace) = 2
    /\ zg_trace[1].exit = "repeat"
    /\ zg_trace[2].exit = "zero_case"
    /\ zg_trace[2].x < 0
    /\ zg_result \in TailValues


(***************************************************************************)
(* Pseudo-iterators on an Rng: Iter, Map and FlatMap (src/src/iter.rs).    *)
(* Option<usize> is None or a number; a sub-iterator is the sequence of    *)
(* the items it has left.                                                  *)
(***************************************************************************)
\* core::cmp::min
min(a, b) == IF a <= b THEN a ELSE b

\* take that replaces the limit instead of keeping the smaller one
Iter_take_replacing(old, len) == len

\* Iter::take: the len field of the Iter returned
Iter_take(old, len) == IF old = None THEN len ELSE min(old, len)

\* the match on self.len of next: whether it returns None, and len afterwards
TakeOne(len) ==
    IF len = 0 THEN [stop |-> TRUE, len |-> 0]
    ELSE IF len # None THEN [stop |-> FALSE, len |-> len - 1]
         ELSE [stop |-> FALSE, len |-> None]

\* Map::next, value the value the closure returns if it is called
Map_next(len, value) ==
    LET t == TakeOne(len)
    IN IF t.stop THEN [ret |-> NoItem, len |-> t.len, called |-> FALSE]
       ELSE [ret |-> [some |-> TRUE, item |-> value], len |-> t.len, called |-> TRUE]

\* the result of FlatMap::next: what it returns, the fields afterwards, the
\* sub-iterators the closure returned during the call, and the ones of supply not
\* asked for; starved when the closure had to be called beyond supply
FlatMapRun(starved, ret, len, front, made, unused) ==
    [starved |-> starved, ret |-> ret, len |-> len, front |-> front, made |-> made,
     unused |-> unused]

\* frontiter = None: an Option is the sequence of what it holds
NoFront == <<>>

\* frontiter holds a sub-iterator that has items left
FrontHasNext(front) == front # NoFront /\ front[1] # <<>>

\* frontiter after inner.next() returned Some(x)
FrontTail(front) == <<Tail(front[1])>>

RECURSIVE FlatMap_next_len_first(_, _, _, _)
\* next with the match on self.len ahead of the look at frontiter
FlatMap_next_len_first(len, front, supply, made) ==
    LET t == TakeOne(len)
    IN IF t.stop THEN FlatMapRun(FALSE, NoItem, t.len, front, made, supply)
       ELSE IF FrontHasNext(front)
            THEN FlatMapRun(FALSE, [some |-> TRUE, item |-> Head(front[1])], len, FrontTail(front), made, supply)
            ELSE IF supply = <<>> THEN FlatMapRun(TRUE, NoItem, len, front, made, supply)
                 ELSE FlatMap_next_len_first(t.len, <<Head(supply)>>, Tail(supply),
                                             Append(made, Head(supply)))

RECURSIVE FlatMap_next(_, _, _, _)
\* FlatMap::next: the loop, with supply the sub-iterators the closure returns in
\* its coming calls and made the ones it returned in this call so far
FlatMap_next(len, front, supply, made) ==
    IF FrontHasNext(front)
    THEN FlatMapRun(FALSE, [some |-> TRUE, item |-> Head(front[1])], len, FrontTail(front), made, supply)
    ELSE LET t == TakeOne(len)
         IN IF t.stop THEN FlatMapRun(FALSE, NoItem, t.len, front, made, supply)
            ELSE IF supply = <<>> THEN FlatMapRun(TRUE, NoItem, len, front, made, supply)
                 ELSE FlatMap_next(t.len, <<Head(supply)>>, Tail(supply),
                                   Append(made, Head(supply)))

\* the items closures return
ItItems == {0, 1}

\* the sub-iterators the closure of flat_map returns
SubIters == UNION {[1..n -> ItItems] : n \in 0..MaxSubLen}

\* the sub-iterators the closure returns in its coming k calls
SuppliesOf(k) == [1..k -> SubIters]

\* the closure calls one call of next is followed for
MaxSupply == MaxTake

ItInit ==
    /\ XnIdle
    /\ CwIdle
    /\ WcIdle
    /\ GrIdle
    /\ RsIdle
    /\ BbIdle
    /\ EcIdle
    /\ XsIdle
    /\ CcIdle
    /\ FlIdle
    /\ SqIdle
    /\ GbIdle
    /\ ChIdle
    /\ ZgIdle
    /\ it_kind = "iter"
    /\ it_len = None
    /\ it_takes = <<>>
    /\ it_front = <<>>
    /\ it_subs = <<>>
    /\ it_log = <<>>

\* iter(rng).take(len)
It_take ==
    /\ it_kind = "iter"
    /\ Len(it_takes) < MaxTakes
    /\ \E len \in 0..MaxTake :
          /\ it_len' = Iter_take(it_len, len)
          /\ it_takes' = Append(it_takes, len)
    /\ UNCHANGED <<it_kind, it_front, it_subs, it_log, wcVars, grVars, rsVars, bbVars, ecVars, xsVars, ccVars, flVars, sqVars, gbVars, chVars, zgVars, cwVars, xnVars>>

\* Iter::map(f)
It_map ==
    /\ it_kind = "iter"
    /\ it_kind' = "map"
    /\ UNCHANGED <<it_len, it_takes, it_front, it_subs, it_log, wcVars, grVars, rsVars, bbVars, ecVars, xsVars, ccVars, flVars, sqVars, gbVars, chVars, zgVars, cwVars, xnVars>>

\* Iter::flat_map(f)
It_flat_map ==
    /\ it_kind = "iter"
    /\ it_kind' = "flat_map"
    /\ it_front' = NoFront
    /\ UNCHANGED <<it_len, it_takes, it_subs, it_log, wcVars, grVars, rsVars, bbVars, ecVars, xsVars, ccVars, flVars, sqVars, gbVars, chVars, zgVars, cwVars, xnVars>>

\* Map::next
It_map_next ==
    /\ it_kind = "map"
    /\ Len(it_log) < MaxNexts
    /\ \E value \in ItItems :
          LET r == Map_next(it_len, value)
          IN /\ it_len' = r.len
             /\ it_log' = Append(it_log, r.ret)
             /\ it_subs' = IF r.called THEN Append(it_subs, value) ELSE it_subs
    /\ UNCHANGED <<it_kind, it_takes, it_front, wcVars, grVars, rsVars, bbVars, ecVars, xsVars, ccVars, flVars, sqVars, gbVars, chVars, zgVars, cwVars, xnVars>>

\* FlatMap::next, the closure returning the sub-iterators of supply; a call that
\* never returns (no limit, and the closure returns empty sub-iterators for
\* ever) has no state to reach
It_flat_map_next ==
    /\ it_kind = "flat_map"
    /\ Len(it_log) < MaxNexts
    /\ \E k \in 0..MaxSupply : \E supply \in SuppliesOf(k) :
          LET r == FlatMap_next(it_len, it_front, supply, <<>>)
          IN /\ ~r.starved
             /\ r.unused = <<>>
             /\ it_len' = r.len
             /\ it_front' = r.front
             /\ it_subs' = it_subs \o r.made
             /\ it_log' = Append(it_log, r.ret)
    /\ UNCHANGED <<it_kind, it_takes, wcVars, grVars, rsVars, bbVars, ecVars, xsVars, ccVars, flVars, sqVars, gbVars, chVars, zgVars, cwVars, xnVars>>

ItNext == It_take \/ It_map \/ It_flat_map \/ It_map_next \/ It_flat_map_next

SpecIT == ItInit /\ [][ItNext]_vars

(***************************************************************************)
(* Claims about the pseudo-iterators, checked under SpecIT.                *)
(***************************************************************************)
RECURSIVE MinOf(_)
\* the smallest element of a non-empty sequence of numbers
MinOf(s) == IF Len(s) = 1 THEN s[1] ELSE min(s[1], MinOf(Tail(s)))

\* the items of the log, the None results left out
Yielded(log) == SelectSeq(log, LAMBDA e : e.some)

\* the None results of the log
Nones(log) == SelectSeq(log, LAMBDA e : ~e.some)

\* once next returned None, every later call returned None
NoneForGood(log) ==
    \A j, k \in 1..Len(log) : (j < k /\ ~log[j].some) => ~log[k].some

RECURSIVE Flatten(_)
\* the items of the sub-iterators of s, in order
Flatten(s) == IF s = <<>> THEN <<>> ELSE Head(s) \o Flatten(Tail(s))

\* C26: an Iter limited by take() and turned into a Map yields exactly the
\* minimum of the take limits (take(a).take(b) limits to min(a, b)), calls the
\* closure exactly that many times, never brings the counter below 0 and returns
\* None on every later next(); without take() it never returns None.
C26_MapYieldsMinOfTakes ==
    /\ it_kind = "iter" =>
          it_len = IF it_takes = <<>> THEN None ELSE MinOf(it_takes)
    /\ it_kind = "map" =>
          /\ Len(it_subs) = Len(Yielded(it_log))
          /\ \A k \in 1..Len(it_subs) : Yielded(it_log)[k].item = it_subs[k]
          /\ NoneForGood(it_log)
          /\ it_takes = <<>> => (it_len = None /\ Nones(it_log) = <<>>)
          /\ it_takes # <<>> =>
                /\ it_len \in 0..MinOf(it_takes)
                /\ Len(it_subs) + it_len = MinOf(it_takes)
                /\ Nones(it_log) # <<>> => Len(it_subs) = MinOf(it_takes)
                /\ Nones(it_log) = <<>> => Len(it_subs) = Len(it_log)

\* C26 witness: take(2).take(1).map(f) yielded one item, then None twice
C26_Witness ==
    /\ it_kind = "map"
    /\ it_takes = <<2, 1>>
    /\ Len(it_subs) = 1
    /\ Len(it_log) = 3
    /\ it_log[1].some
    /\ it_log[2] = NoItem
    /\ it_log[3] = NoItem

\* C27: a FlatMap limited by take(n) calls the closure at most n times, yields
\* every item of every sub-iterator in order (in total the sum of their lengths),
\* and next() terminates, with None once the n-th sub-iterator is exhausted, even
\* when every sub-iterator is empty.
C27_FlatMapYieldsAll ==
    (it_kind = "flat_map" /\ it_takes # <<>>) =>
        LET n == MinOf(it_takes)
            items == Yielded(it_log)
            left == IF it_front = NoFront THEN <<>> ELSE it_front[1]
        IN /\ it_len \in 0..n
           /\ Len(it_subs) + it_len = n
           /\ Flatten(it_subs) = [k \in 1..Len(items) |-> items[k].item] \o left
           /\ NoneForGood(it_log)
           /\ Nones(it_log) # <<>> =>
                 /\ Len(it_subs) = n
                 /\ left = <<>>
                 /\ Len(items) = Len(Flatten(it_subs))
           /\ (Len(it_subs) < n \/ left # <<>>) => Nones(it_log) = <<>>
           /\ \A supply \in SuppliesOf(it_len) :
                 LET r == FlatMap_next(it_len, it_front, supply, <<>>)
                 IN /\ ~r.starved
                    /\ (left = <<>> /\ \A k \in 1..it_len : supply[k] = <<>>) =>
                          (r.ret = NoItem /\ r.made = supply)

\* C27 witness: take(2).flat_map(f) with an empty sub-iterator and one of two
\* items yielded both items and then None
C27_Witness ==
    /\ it_kind = "flat_map"
    /\ it_takes = <<2>>
    /\ it_subs = << <<>>, <<1, 0>> >>
    /\ Len(it_log) = 3
    /\ it_log[1].item = 1
    /\ it_log[2].item = 0
    /\ it_log[3] = NoItem


(***************************************************************************)
(* The ChaCha block position: pos64, refill4 and set_stream_param          *)
(* (src/rand_chacha/src/guts.rs). A u64 is its 64 bits from the least      *)
(* significant; the keystream bytes refill4 writes to `out` are not state  *)
(* of the generator and are left out, the d rows they are made from kept.  *)
(***************************************************************************)
\* the u64 of a low and a high u32
U64Of(lo, hi) == lo \o hi

\* `x as u32` on a u64
LowWord(x) == SubSeq(x, 1, WordBits)

\* `(x >> 32) as u32` on a u64
HighWord(x) == SubSeq(x, WordBits + 1, 2 * WordBits)

\* ChaCha::pos64: ((d.extract(1) as u64) << 32) | d.extract(0) as u64
pos64(state) == U64Of(state.d[1], state.d[2])

\* x.wrapping_add(1) on a u64: a bit flips when every bit below it is set
wrapping_add_1(x) ==
    [i \in 1..Len(x) |-> IF \A j \in 1..(i - 1) : x[j] = 1 THEN 1 - x[i] ELSE x[i]]

\* x.wrapping_add(1) on the low u32 of a u64, the carry dropped
wrapping_add_1_low(x) == U64Of(wrapping_add_1(LowWord(x)), HighWord(x))

\* d0.insert((pos >> 32) as u32, 1).insert(pos as u32, 0)
InsertPos(d0, pos) == [d0 EXCEPT ![1] = LowWord(pos), ![2] = HighWord(pos)]

\* refill_wide_impl with the position kept in a u32
refill_wide_impl_u32(state) ==
    LET d0 == state.d
        p1 == wrapping_add_1_low(pos64(state))
        p2 == wrapping_add_1_low(p1)
        p3 == wrapping_add_1_low(p2)
        p4 == wrapping_add_1_low(p3)
    IN [state |-> [state EXCEPT !.d = InsertPos(d0, p4)],
        blocks |-> <<d0, InsertPos(d0, p1), InsertPos(d0, p2), InsertPos(d0, p3)>>]

\* refill_wide_impl: the state afterwards and sd, the d rows of the four blocks
refill_wide_impl(state) ==
    LET d0 == state.d
        p1 == wrapping_add_1(pos64(state))
        p2 == wrapping_add_1(p1)
        p3 == wrapping_add_1(p2)
        p4 == wrapping_add_1(p3)
    IN [state |-> [state EXCEPT !.d = InsertPos(d0, p4)],
        blocks |-> <<d0, InsertPos(d0, p1), InsertPos(d0, p2), InsertPos(d0, p3)>>]

\* set_stream_param(state, param, value), rows counted from 1
set_stream_param(state, param, value) ==
    [state EXCEPT !.d = [state.d EXCEPT ![2 * param + 1] = LowWord(value),
                                        ![2 * param + 2] = HighWord(value)]]

\* ChaCha::stream64_eq
stream64_eq(self, rhs) ==
    /\ self.b = rhs.b
    /\ self.c = rhs.c
    /\ self.d[4] = rhs.d[4]
    /\ self.d[3] = rhs.d[3]

\* the u32 n, for n below 256
SmallWord(n) == [i \in 1..WordBits |-> IF i <= ByteBits THEN ByteBit(n, i - 1) ELSE 0]

\* the u32 2^32 - n, for n in 1..256
TopWord(n) == [i \in 1..WordBits |-> 1 - SmallWord(n - 1)[i]]

\* the values set_stream_param is called with: next to 0, 2^32, 2^64 - 2^32 and 2^64
StreamValues ==
    {U64Of(lo, hi) : lo \in {SmallWord(0), TopWord(6), TopWord(2)},
                     hi \in {SmallWord(0), TopWord(1)}}

CwInit ==
    /\ XnIdle
    /\ WcIdle
    /\ GrIdle
    /\ RsIdle
    /\ BbIdle
    /\ EcIdle
    /\ XsIdle
    /\ CcIdle
    /\ FlIdle
    /\ SqIdle
    /\ GbIdle
    /\ ChIdle
    /\ ZgIdle
    /\ ItIdle
    /\ cw_first = CcNone
    /\ cw_last = NoRefill
    /\ cw_refills = 0
    /\ cw_sets = 0

\* ChaCha::new(key, nonce)
Cw_new ==
    /\ cc.state = "none"
    /\ \E key \in Keys, nonce \in Nonces :
          /\ cc' = init_chacha(key, nonce)
          /\ cw_first' = init_chacha(key, nonce)
    /\ UNCHANGED <<cw_last, cw_refills, cw_sets, wcVars, grVars, rsVars, bbVars, ecVars, xsVars, flVars, sqVars, gbVars, chVars, zgVars, itVars, xnVars>>

\* ChaCha::set_stream_param(param, value): param 0 is the block position, 1 the stream
Cw_set_stream_param ==
    /\ cc.state = "built"
    /\ cw_sets < MaxSets
    /\ \E param \in {0, 1}, value \in StreamValues :
          /\ cc' = set_stream_param(cc, param, value)
          /\ cw_first' = set_stream_param(cc, param, value)
    /\ cw_last' = NoRefill
    /\ cw_refills' = 0
    /\ cw_sets' = cw_sets + 1
    /\ UNCHANGED <<wcVars, grVars, rsVars, bbVars, ecVars, xsVars, flVars, sqVars, gbVars, chVars, zgVars, itVars, xnVars>>

\* ChaCha::refill4(drounds, out)
Cw_refill4 ==
    /\ cc.state = "built"
    /\ cw_refills < MaxRefills
    /\ LET r == refill_wide_impl(cc)
       IN /\ cc' = r.state
          /\ cw_last' = [before |-> cc, blocks |-> r.blocks]
    /\ cw_refills' = cw_refills + 1
    /\ UNCHANGED <<cw_first, cw_sets, wcVars, grVars, rsVars, bbVars, ecVars, xsVars, flVars, sqVars, gbVars, chVars, zgVars, itVars, xnVars>>

CwNext == Cw_new \/ Cw_set_stream_param \/ Cw_refill4

SpecCW == CwInit /\ [][CwNext]_vars

(***************************************************************************)
(* Claims about the ChaCha block position, checked under SpecCW.           *)
(***************************************************************************)
\* the 64-bit block position of a state, as its 8 bytes from the least significant
PosBytes(state) == Word32LeBytes(state.d[1]) \o Word32LeBytes(state.d[2])

RECURSIVE PlusBytes(_, _)
\* the bytes of a number plus n, modulo 256^Len(bytes)
PlusBytes(bytes, n) ==
    IF bytes = <<>> THEN <<>>
    ELSE <<(Head(bytes) + n) % 256>> \o PlusBytes(Tail(bytes), (Head(bytes) + n) \div 256)

\* C28: refill4 advances the 64-bit block position (words 0-1 of d) by exactly 4
\* modulo 2^64 and changes nothing else of the state: b, c and words 2-3 of d are
\* as before, so stream64_eq(before, after) holds after any number of refills.
C28_RefillAdvancesByFour ==
    (cc.state = "built" /\ cw_refills > 0) =>
        /\ PosBytes(cc) = PlusBytes(PosBytes(cw_last.before), 4)
        /\ PosBytes(cc) = PlusBytes(PosBytes(cw_first), 4 * cw_refills)
        /\ cc.b = cw_last.before.b
        /\ cc.c = cw_last.before.c
        /\ cc.d[3] = cw_last.before.d[3]
        /\ cc.d[4] = cw_last.before.d[4]
        /\ stream64_eq(cw_last.before, cc)
        /\ stream64_eq(cw_first, cc)
        /\ \A k \in 1..4 :
              /\ PosBytes([d |-> cw_last.blocks[k]]) = PlusBytes(PosBytes(cw_last.before), k - 1)
              /\ cw_last.blocks[k][3] = cc.d[3]
              /\ cw_last.blocks[k][4] = cc.d[4]

\* C28 witness: the second refill since the position was set to 2^32 - 6 carried
\* into word 1 of d, next to a stream id that is not 0
C28_Witness ==
    /\ cc.state = "built"
    /\ cw_refills = 2
    /\ PosBytes(cw_first) = <<250, 255, 255, 255, 0, 0, 0, 0>>
    /\ PosBytes(cw_last.before) = <<254, 255, 255, 255, 0, 0, 0, 0>>
    /\ PosBytes(cc) = <<2, 0, 0, 0, 1, 0, 0, 0>>
    /\ cc.d[4] # Zero32


(***************************************************************************)
(* The XorShiftRng state over its life: new_unseeded, from_seed, from_rng, *)
(* next_u32 and fill_bytes (src/src/prng/xorshift.rs).                     *)
(***************************************************************************)
\* XorShiftRng::new_unseeded(): 0x193a6754, 0xa8a7d469, 0x97830e05, 0x113ba7bb
XorShiftRng_new_unseeded ==
    XsGen("built", read_u32(<<84, 103, 58, 25>>, 0), read_u32(<<105, 212, 167, 168>>, 0),
          read_u32(<<5, 14, 131, 151>>, 0), read_u32(<<187, 167, 59, 17>>, 0))

RECURSIVE XorShiftRng_from_rng(_, _, _)
\* XorShiftRng::from_rng on the source of SourceTuple, from its t-th tuple on: the
\* loop, followed for RetryLimit + 1 passes
XorShiftRng_from_rng(seed, lead, t) ==
    LET g == XorShiftRng_from_rng_pass(SourceTuple(seed, lead, t))
    IN IF g.state = "built" \/ t >= RetryLimit THEN g
       ELSE XorShiftRng_from_rng(seed, lead, t + 1)

XnInit ==
    /\ WcIdle
    /\ GrIdle
    /\ RsIdle
    /\ BbIdle
    /\ EcIdle
    /\ XsIdle
    /\ CcIdle
    /\ FlIdle
    /\ SqIdle
    /\ GbIdle
    /\ ChIdle
    /\ ZgIdle
    /\ ItIdle
    /\ CwIdle
    /\ xn_g = XsNone
    /\ xn_last = NoXsCall
    /\ xn_calls = 0

\* XorShiftRng::new_unseeded()
Xn_new_unseeded ==
    /\ xn_g.state = "none"
    /\ xn_g' = XorShiftRng_new_unseeded
    /\ xn_last' = [op |-> "new_unseeded", before |-> xn_g, out |-> Zero32]
    /\ xn_calls' = xn_calls + 1
    /\ UNCHANGED <<wcVars, grVars, rsVars, bbVars, ecVars, xsVars, ccVars, flVars, sqVars, gbVars, chVars, zgVars, itVars, cwVars>>

\* XorShiftRng::from_seed(seed): the generator, or the panic on the all-zero seed
Xn_from_seed ==
    /\ xn_g.state = "none"
    /\ \E seed \in Seeds : xn_g' = XorShiftRng_from_seed(seed)
    /\ xn_last' = [op |-> "from_seed", before |-> xn_g, out |-> Zero32]
    /\ xn_calls' = xn_calls + 1
    /\ UNCHANGED <<wcVars, grVars, rsVars, bbVars, ecVars, xsVars, ccVars, flVars, sqVars, gbVars, chVars, zgVars, itVars, cwVars>>

\* XorShiftRng::from_rng(source); on a source of zeros only the call does not
\* return, and there is no generator
Xn_from_rng ==
    /\ xn_g.state = "none"
    /\ \E seed \in Seeds, lead \in 0..MaxLead :
          /\ XorShiftRng_from_rng(seed, lead, 0).state = "built"
          /\ xn_g' = XorShiftRng_from_rng(seed, lead, 0)
    /\ xn_last' = [op |-> "from_rng", before |-> xn_g, out |-> Zero32]
    /\ xn_calls' = xn_calls + 1
    /\ UNCHANGED <<wcVars, grVars, rsVars, bbVars, ecVars, xsVars, ccVars, flVars, sqVars, gbVars, chVars, zgVars, itVars, cwVars>>

\* XorShiftRng::next_u32
Xn_next_u32 ==
    /\ xn_g.state = "built"
    /\ xn_calls < MaxXsCalls
    /\ LET r == XorShiftRng_next_u32(xn_g)
       IN /\ xn_g' = r.g
          /\ xn_last' = [op |-> "next_u32", before |-> xn_g, out |-> r.out]
    /\ xn_calls' = xn_calls + 1
    /\ UNCHANGED <<wcVars, grVars, rsVars, bbVars, ecVars, xsVars, ccVars, flVars, sqVars, gbVars, chVars, zgVars, itVars, cwVars>>

\* XorShiftRng::fill_bytes(dest), dest of up to two words
Xn_fill_bytes ==
    /\ xn_g.state = "built"
    /\ xn_calls < MaxXsCalls
    /\ \E n \in 0..U64Bytes :
          xn_g' = XorShiftRng_fill_bytes(xn_g, Blank(n)).g
    /\ xn_last' = [op |-> "fill_bytes", before |-> xn_g, out |-> Zero32]
    /\ xn_calls' = xn_calls + 1
    /\ UNCHANGED <<wcVars, grVars, rsVars, bbVars, ecVars, xsVars, ccVars, flVars, sqVars, gbVars, chVars, zgVars, itVars, cwVars>>

XnNext == Xn_new_unseeded \/ Xn_from_seed \/ Xn_from_rng \/ Xn_next_u32 \/ Xn_fill_bytes

SpecXN == XnInit /\ [][XnNext]_vars

(***************************************************************************)
(* Claims about the XorShiftRng state, checked under SpecXN.               *)
(***************************************************************************)
\* the state (x, y, z, w) of g is not (0, 0, 0, 0)
XsNonZero(g) == <<g.x, g.y, g.z, g.w>> # <<Zero32, Zero32, Zero32, Zero32>>

\* C30: the XorShiftRng state (x, y, z, w) is never all-zero: it is non-zero after
\* from_seed, from_rng and new_unseeded, and every next_u32 (hence fill_bytes)
\* maps a non-zero state to a non-zero state, shifting x <- y, y <- z, z <- w and
\* returning the new w.
C30_StateNeverAllZero ==
    /\ xn_g.state = "built" => XsNonZero(xn_g)
    /\ xn_g.state # "built" => xn_last.op \in {"none", "from_seed"}
    /\ xn_last.op \in {"next_u32", "fill_bytes"} => XsNonZero(xn_last.before)
    /\ xn_last.op = "next_u32" =>
          /\ xn_g.x = xn_last.before.y
          /\ xn_g.y = xn_last.before.z
          /\ xn_g.z = xn_last.before.w
          /\ xn_last.out = xn_g.w

\* C30 witness: next_u32 took a state whose only non-zero word was x to a state
\* whose only non-zero word is the new w
C30_Witness ==
    /\ xn_last.op = "next_u32"
    /\ xn_last.before.x # Zero32
    /\ xn_last.before.y = Zero32
    /\ xn_last.before.z = Zero32
    /\ xn_last.before.w = Zero32
    /\ xn_g.x = Zero32
    /\ xn_g.y = Zero32
    /\ xn_g.z = Zero32
    /\ xn_g.w # Zero32

====
